---------------------------- MODULE Spec2Model ----------------------------
(***************************************************************************)
(* State-machine model of the YM3812 (OPL2) FM sound generator of          *)
(* Source/fmopl.c: the register decoder, the envelope, phase, LFO and      *)
(* noise generators, the operator network with the rhythm mixer, and the   *)
(* per-sample loop.  The chip is the one created by                        *)
(* ym3812_init(3579545, 44100).                                            *)
(***************************************************************************)
EXTENDS Integers, Sequences, FiniteSets, TLC

VARIABLES
    OPL,                \* the FM_OPL chip structure (FM_OPL_MEMORY)
    LFO_AM,             \* static UINT32 LFO_AM
    LFO_PM,             \* static INT32 LFO_PM
    output,             \* static signed int output[0]
    phase_modulation,   \* static signed int phase_modulation
    buf,                \* sample buffer filled by the last ym3812_update_one
    call,               \* the interface call that produced this state
    keyed,              \* a key-on was issued since the last reset
    host                \* the host program: its tune, position and free calls

vars == << OPL, LFO_AM, LFO_PM, output, phase_modulation, buf, call, keyed, host >>

-----------------------------------------------------------------------------
(* Fixed-point formats and sizes                                           *)

FREQ_SH == 16
EG_SH == 16
LFO_SH == 24
FREQ_MASK == (2 ^ FREQ_SH) - 1
ENV_BITS == 10
MAX_ATT_INDEX == (2 ^ (ENV_BITS - 1)) - 1
MIN_ATT_INDEX == 0
SIN_BITS == 10
SIN_LEN == 2 ^ SIN_BITS
SIN_MASK == SIN_LEN - 1
TL_RES_LEN == 256
TL_TAB_LEN == 12 * TL_RES_LEN
ENV_QUIET == TL_TAB_LEN \div 16
RATE_STEPS == 8
LFO_AM_TAB_ELEMENTS == 210
SLOT1 == 0
SLOT2 == 1

EG_ATT == 4
EG_DEC == 3
EG_SUS == 2
EG_REL == 1
EG_OFF == 0

OPL_TYPE_WAVESEL == 1
OPL_TYPE_YM3812 == OPL_TYPE_WAVESEL

\* arguments of ym3812_init for the modelled chip
CLOCK == 3579545
RATE == 44100

UINT8 == 256
UINT16 == 65536

-----------------------------------------------------------------------------
(* Bit operations of C on non-negative integers                            *)

\* x >> n for 0 <= x < 2^31 (a shift by 31 leaves nothing)
Shr(x, n) == IF n >= 31 THEN 0 ELSE x \div (2 ^ n)
Shl(x, n) == x * (2 ^ n)
Bit(x, n) == (x \div (2 ^ n)) % 2

\* a & b on one byte
BitAnd8(a, b) ==
      (Bit(a, 0) * Bit(b, 0))       + (Bit(a, 1) * Bit(b, 1)) * 2
    + (Bit(a, 2) * Bit(b, 2)) * 4   + (Bit(a, 3) * Bit(b, 3)) * 8
    + (Bit(a, 4) * Bit(b, 4)) * 16  + (Bit(a, 5) * Bit(b, 5)) * 32
    + (Bit(a, 6) * Bit(b, 6)) * 64  + (Bit(a, 7) * Bit(b, 7)) * 128

\* a & b for 0 <= a, b < 2^31, byte by byte
RECURSIVE BitAndNat(_, _)
BitAndNat(a, b) ==
    IF a = 0 \/ b = 0 THEN 0
    ELSE BitAnd8(a % 256, b % 256) + 256 * BitAndNat(a \div 256, b \div 256)

\* a & b for a >= 0; a negative b is a 32-bit mask ~m in two's complement
BitAnd(a, b) == IF b < 0 THEN a - BitAndNat(a, (-b) - 1) ELSE BitAndNat(a, b)

BitOr(a, b) == (a + b) - BitAndNat(a, b)

BitXor(a, b) == (a + b) - 2 * BitAndNat(a, b)

\* ~m, as the signed value of the 32-bit complement
Not32(m) == (-m) - 1

\* A UINT32 accumulator is held as << high, low >> with a low part of sh
\* bits and a high part of 32 - sh bits; the sum wraps modulo 2^32.
Add32(x, inc, sh) ==
    LET lo == x[2] + (inc % (2 ^ sh))
    IN  << (x[1] + (inc \div (2 ^ sh)) + (lo \div (2 ^ sh))) % (2 ^ (32 - sh)),
           lo % (2 ^ sh) >>

\* The function f on the channels 0..8, on the operators 0..1 of a channel,
\* written out point by point
EachCH(f) ==
    (0 :> f[0]) @@ (1 :> f[1]) @@ (2 :> f[2]) @@ (3 :> f[3]) @@ (4 :> f[4])
        @@ (5 :> f[5]) @@ (6 :> f[6]) @@ (7 :> f[7]) @@ (8 :> f[8])
EachSLOT(f) == (0 :> f[0]) @@ (1 :> f[1])

\* A local variable of the C code: f is [x \in {e} |-> body], and Local(f) is
\* body with x the value of e, which is computed first
Local(f) == f[CHOOSE x \in DOMAIN f : TRUE]

-----------------------------------------------------------------------------
(* Constant tables                                                         *)

\* A faulty slot table with six gaps only: a fourth row of operators
slot_array_six ==
    << 0, 2, 4, 1, 3, 5, -1, -1,
       6, 8, 10, 7, 9, 11, -1, -1,
       12, 14, 16, 13, 15, 17, -1, -1,
       0, 2, 4, 1, 3, 5, 6, 8 >>

slot_array ==
    << 0, 2, 4, 1, 3, 5, -1, -1,
       6, 8, 10, 7, 9, 11, -1, -1,
       12, 14, 16, 13, 15, 17, -1, -1,
       -1, -1, -1, -1, -1, -1, -1, -1 >>

\* ksl_tab[i] = (uint8_t)(dB / DV), DV = 0.1875 / 2
ksl_tab ==
    << 0, 0, 0, 0, 0, 0, 0, 0, 0, 0, 0, 0, 0, 0, 0, 0,
       0, 0, 0, 0, 0, 0, 0, 0, 0, 8, 12, 16, 20, 24, 28, 32,
       0, 0, 0, 0, 0, 12, 20, 28, 32, 40, 44, 48, 52, 56, 60, 64,
       0, 0, 0, 20, 32, 44, 52, 60, 64, 72, 76, 80, 84, 88, 92, 96,
       0, 0, 32, 52, 64, 76, 84, 92, 96, 104, 108, 112, 116, 120, 124, 128,
       0, 32, 64, 84, 96, 108, 116, 124, 128, 136, 140, 144, 148, 152, 156, 160,
       0, 64, 96, 116, 128, 140, 148, 156, 160, 168, 172, 176, 180, 184, 188, 192,
       0, 96, 128, 148, 160, 172, 180, 188, 192, 200, 204, 208, 212, 216, 220, 224 >>

sl_tab ==
    << 0, 8, 16, 24, 32, 40, 48, 56, 64, 72, 80, 88, 96, 104, 112, 248 >>

eg_inc ==
    << 0, 1, 0, 1, 0, 1, 0, 1,
       0, 1, 0, 1, 1, 1, 0, 1,
       0, 1, 1, 1, 0, 1, 1, 1,
       0, 1, 1, 1, 1, 1, 1, 1,
       1, 1, 1, 1, 1, 1, 1, 1,
       1, 1, 1, 2, 1, 1, 1, 2,
       1, 2, 1, 2, 1, 2, 1, 2,
       1, 2, 2, 2, 1, 2, 2, 2,
       2, 2, 2, 2, 2, 2, 2, 2,
       2, 2, 2, 4, 2, 2, 2, 4,
       2, 4, 2, 4, 2, 4, 2, 4,
       2, 4, 4, 4, 2, 4, 4, 4,
       4, 4, 4, 4, 4, 4, 4, 4,
       8, 8, 8, 8, 8, 8, 8, 8,
       0, 0, 0, 0, 0, 0, 0, 0 >>

\* eg_rate_select[16 + 64 + 16], entries O(a) = a * RATE_STEPS
eg_rate_select ==
    << 112, 112, 112, 112, 112, 112, 112, 112, 112, 112, 112, 112, 112, 112, 112, 112,
       0, 8, 16, 24, 0, 8, 16, 24, 0, 8, 16, 24, 0, 8, 16, 24,
       0, 8, 16, 24, 0, 8, 16, 24, 0, 8, 16, 24, 0, 8, 16, 24,
       0, 8, 16, 24, 0, 8, 16, 24, 0, 8, 16, 24, 0, 8, 16, 24,
       0, 8, 16, 24, 32, 40, 48, 56, 64, 72, 80, 88, 96, 96, 96, 96,
       96, 96, 96, 96, 96, 96, 96, 96, 96, 96, 96, 96, 96, 96, 96, 96 >>

\* eg_rate_shift[16 + 64 + 16]
eg_rate_shift ==
    << 0, 0, 0, 0, 0, 0, 0, 0, 0, 0, 0, 0, 0, 0, 0, 0,
       12, 12, 12, 12, 11, 11, 11, 11, 10, 10, 10, 10, 9, 9, 9, 9,
       8, 8, 8, 8, 7, 7, 7, 7, 6, 6, 6, 6, 5, 5, 5, 5,
       4, 4, 4, 4, 3, 3, 3, 3, 2, 2, 2, 2, 1, 1, 1, 1,
       0, 0, 0, 0, 0, 0, 0, 0, 0, 0, 0, 0, 0, 0, 0, 0,
       0, 0, 0, 0, 0, 0, 0, 0, 0, 0, 0, 0, 0, 0, 0, 0 >>

mul_tab8 == << 1, 2, 4, 6, 8, 10, 12, 14, 16, 18, 20, 20, 24, 24, 30, 30 >>

\* lfo_am_table[LFO_AM_TAB_ELEMENTS]
lfo_am_table ==
    << 0, 0, 0, 0, 0, 0, 0, 1, 1, 1, 1, 2, 2, 2, 2, 3, 3, 3, 3, 4, 4,
       4, 4, 5, 5, 5, 5, 6, 6, 6, 6, 7, 7, 7, 7, 8, 8, 8, 8, 9, 9, 9,
       9, 10, 10, 10, 10, 11, 11, 11, 11, 12, 12, 12, 12, 13, 13, 13, 13, 14, 14, 14, 14,
       15, 15, 15, 15, 16, 16, 16, 16, 17, 17, 17, 17, 18, 18, 18, 18, 19, 19, 19, 19, 20,
       20, 20, 20, 21, 21, 21, 21, 22, 22, 22, 22, 23, 23, 23, 23, 24, 24, 24, 24, 25, 25,
       25, 25, 26, 26, 26, 25, 25, 25, 25, 24, 24, 24, 24, 23, 23, 23, 23, 22, 22, 22, 22,
       21, 21, 21, 21, 20, 20, 20, 20, 19, 19, 19, 19, 18, 18, 18, 18, 17, 17, 17, 17, 16,
       16, 16, 16, 15, 15, 15, 15, 14, 14, 14, 14, 13, 13, 13, 13, 12, 12, 12, 12, 11, 11,
       11, 11, 10, 10, 10, 10, 9, 9, 9, 9, 8, 8, 8, 8, 7, 7, 7, 7, 6, 6, 6,
       6, 5, 5, 5, 5, 4, 4, 4, 4, 3, 3, 3, 3, 2, 2, 2, 2, 1, 1, 1, 1 >>

lfo_pm_table ==
    << 0, 0, 0, 0, 0, 0, 0, 0,
       0, 0, 0, 0, 0, 0, 0, 0,
       0, 0, 0, 0, 0, 0, 0, 0,
       1, 0, 0, 0, -1, 0, 0, 0,
       1, 0, 0, 0, -1, 0, 0, 0,
       2, 1, 0, -1, -2, -1, 0, 1,
       1, 0, 0, 0, -1, 0, 0, 0,
       3, 1, 0, -1, -3, -1, 0, 1,
       2, 1, 0, -1, -2, -1, 0, 1,
       4, 2, 0, -2, -4, -2, 0, 2,
       2, 1, 0, -1, -2, -1, 0, 1,
       5, 2, 0, -2, -5, -2, 0, 2,
       3, 1, 0, -1, -3, -1, 0, 1,
       6, 3, 0, -3, -6, -3, 0, 3,
       3, 1, 0, -1, -3, -1, 0, 1,
       7, 3, 0, -3, -7, -3, 0, 3 >>

\* tl_tab[x], built by init_tables: the 12-bit linear amplitude of
\* attenuation step x (the sign is applied at lookup time)
tl_tab ==
    << 4084, 4074, 4062, 4052, 4040, 4030, 4020, 4008, 3998, 3986, 3976, 3966, 3954, 3944, 3932, 3922,
       3912, 3902, 3890, 3880, 3870, 3860, 3848, 3838, 3828, 3818, 3808, 3796, 3786, 3776, 3766, 3756,
       3746, 3736, 3726, 3716, 3706, 3696, 3686, 3676, 3666, 3656, 3646, 3636, 3626, 3616, 3606, 3596,
       3588, 3578, 3568, 3558, 3548, 3538, 3530, 3520, 3510, 3500, 3492, 3482, 3472, 3464, 3454, 3444,
       3434, 3426, 3416, 3408, 3398, 3388, 3380, 3370, 3362, 3352, 3344, 3334, 3326, 3316, 3308, 3298,
       3290, 3280, 3272, 3262, 3254, 3246, 3236, 3228, 3218, 3210, 3202, 3192, 3184, 3176, 3168, 3158,
       3150, 3142, 3132, 3124, 3116, 3108, 3100, 3090, 3082, 3074, 3066, 3058, 3050, 3040, 3032, 3024,
       3016, 3008, 3000, 2992, 2984, 2976, 2968, 2960, 2952, 2944, 2936, 2928, 2920, 2912, 2904, 2896,
       2888, 2880, 2872, 2866, 2858, 2850, 2842, 2834, 2826, 2818, 2812, 2804, 2796, 2788, 2782, 2774,
       2766, 2758, 2752, 2744, 2736, 2728, 2722, 2714, 2706, 2700, 2692, 2684, 2678, 2670, 2664, 2656,
       2648, 2642, 2634, 2628, 2620, 2614, 2606, 2600, 2592, 2584, 2578, 2572, 2564, 2558, 2550, 2544,
       2536, 2530, 2522, 2516, 2510, 2502, 2496, 2488, 2482, 2476, 2468, 2462, 2456, 2448, 2442, 2436,
       2428, 2422, 2416, 2410, 2402, 2396, 2390, 2384, 2376, 2370, 2364, 2358, 2352, 2344, 2338, 2332,
       2326, 2320, 2314, 2308, 2300, 2294, 2288, 2282, 2276, 2270, 2264, 2258, 2252, 2246, 2240, 2234,
       2228, 2222, 2216, 2210, 2204, 2198, 2192, 2186, 2180, 2174, 2168, 2162, 2156, 2150, 2144, 2138,
       2132, 2128, 2122, 2116, 2110, 2104, 2098, 2092, 2088, 2082, 2076, 2070, 2064, 2060, 2054, 2048 >>

\* sin_tab[i], built by init_tables: the sine in the logarithmic scale, bit 0
\* is the sign
sin_tab ==
    << 4274, 3462, 3086, 2838, 2652, 2504, 2380, 2274, 2182, 2100, 2026, 1958, 1898, 1840, 1788, 1738,
       1692, 1650, 1608, 1570, 1534, 1498, 1464, 1434, 1402, 1374, 1344, 1318, 1292, 1266, 1242, 1218,
       1196, 1174, 1152, 1132, 1112, 1092, 1072, 1054, 1036, 1018, 1002, 984, 968, 952, 936, 922,
       906, 892, 878, 864, 850, 836, 822, 810, 798, 784, 772, 760, 750, 738, 726, 716,
       704, 694, 682, 672, 662, 652, 642, 632, 622, 614, 604, 594, 586, 578, 568, 560,
       552, 542, 534, 526, 518, 510, 502, 496, 488, 480, 472, 466, 458, 452, 444, 438,
       430, 424, 418, 410, 404, 398, 392, 386, 380, 374, 368, 362, 356, 350, 344, 338,
       334, 328, 322, 318, 312, 306, 302, 296, 292, 286, 282, 276, 272, 268, 262, 258,
       254, 250, 244, 240, 236, 232, 228, 224, 220, 216, 212, 208, 204, 200, 196, 192,
       188, 184, 182, 178, 174, 170, 166, 164, 160, 156, 154, 150, 148, 144, 140, 138,
       134, 132, 128, 126, 124, 120, 118, 114, 112, 110, 106, 104, 102, 98, 96, 94,
       92, 90, 86, 84, 82, 80, 78, 76, 74, 72, 70, 68, 66, 64, 62, 60,
       58, 56, 54, 52, 50, 48, 46, 46, 44, 42, 40, 40, 38, 36, 34, 34,
       32, 30, 30, 28, 26, 26, 24, 24, 22, 20, 20, 18, 18, 16, 16, 14,
       14, 14, 12, 12, 10, 10, 10, 8, 8, 8, 6, 6, 6, 4, 4, 4,
       4, 2, 2, 2, 2, 2, 2, 2, 0, 0, 0, 0, 0, 0, 0, 0,
       0, 0, 0, 0, 0, 0, 0, 0, 2, 2, 2, 2, 2, 2, 2, 4,
       4, 4, 4, 6, 6, 6, 8, 8, 8, 10, 10, 10, 12, 12, 14, 14,
       14, 16, 16, 18, 18, 20, 20, 22, 24, 24, 26, 26, 28, 30, 30, 32,
       34, 34, 36, 38, 40, 40, 42, 44, 46, 46, 48, 50, 52, 54, 56, 58,
       60, 62, 64, 66, 68, 70, 72, 74, 76, 78, 80, 82, 84, 86, 90, 92,
       94, 96, 98, 102, 104, 106, 110, 112, 114, 118, 120, 124, 126, 128, 132, 134,
       138, 140, 144, 148, 150, 154, 156, 160, 164, 166, 170, 174, 178, 182, 184, 188,
       192, 196, 200, 204, 208, 212, 216, 220, 224, 228, 232, 236, 240, 244, 250, 254,
       258, 262, 268, 272, 276, 282, 286, 292, 296, 302, 306, 312, 318, 322, 328, 334,
       338, 344, 350, 356, 362, 368, 374, 380, 386, 392, 398, 404, 410, 418, 424, 430,
       438, 444, 452, 458, 466, 472, 480, 488, 496, 502, 510, 518, 526, 534, 542, 552,
       560, 568, 578, 586, 594, 604, 614, 622, 632, 642, 652, 662, 672, 682, 694, 704,
       716, 726, 738, 750, 760, 772, 784, 798, 810, 822, 836, 850, 864, 878, 892, 906,
       922, 936, 952, 968, 984, 1002, 1018, 1036, 1054, 1072, 1092, 1112, 1132, 1152, 1174, 1196,
       1218, 1242, 1266, 1292, 1318, 1344, 1374, 1402, 1434, 1464, 1498, 1534, 1570, 1608, 1650, 1692,
       1738, 1788, 1840, 1898, 1958, 2026, 2100, 2182, 2274, 2380, 2504, 2652, 2838, 3086, 3462, 4274,
       4275, 3463, 3087, 2839, 2653, 2505, 2381, 2275, 2183, 2101, 2027, 1959, 1899, 1841, 1789, 1739,
       1693, 1651, 1609, 1571, 1535, 1499, 1465, 1435, 1403, 1375, 1345, 1319, 1293, 1267, 1243, 1219,
       1197, 1175, 1153, 1133, 1113, 1093, 1073, 1055, 1037, 1019, 1003, 985, 969, 953, 937, 923,
       907, 893, 879, 865, 851, 837, 823, 811, 799, 785, 773, 761, 751, 739, 727, 717,
       705, 695, 683, 673, 663, 653, 643, 633, 623, 615, 605, 595, 587, 579, 569, 561,
       553, 543, 535, 527, 519, 511, 503, 497, 489, 481, 473, 467, 459, 453, 445, 439,
       431, 425, 419, 411, 405, 399, 393, 387, 381, 375, 369, 363, 357, 351, 345, 339,
       335, 329, 323, 319, 313, 307, 303, 297, 293, 287, 283, 277, 273, 269, 263, 259,
       255, 251, 245, 241, 237, 233, 229, 225, 221, 217, 213, 209, 205, 201, 197, 193,
       189, 185, 183, 179, 175, 171, 167, 165, 161, 157, 155, 151, 149, 145, 141, 139,
       135, 133, 129, 127, 125, 121, 119, 115, 113, 111, 107, 105, 103, 99, 97, 95,
       93, 91, 87, 85, 83, 81, 79, 77, 75, 73, 71, 69, 67, 65, 63, 61,
       59, 57, 55, 53, 51, 49, 47, 47, 45, 43, 41, 41, 39, 37, 35, 35,
       33, 31, 31, 29, 27, 27, 25, 25, 23, 21, 21, 19, 19, 17, 17, 15,
       15, 15, 13, 13, 11, 11, 11, 9, 9, 9, 7, 7, 7, 5, 5, 5,
       5, 3, 3, 3, 3, 3, 3, 3, 1, 1, 1, 1, 1, 1, 1, 1,
       1, 1, 1, 1, 1, 1, 1, 1, 3, 3, 3, 3, 3, 3, 3, 5,
       5, 5, 5, 7, 7, 7, 9, 9, 9, 11, 11, 11, 13, 13, 15, 15,
       15, 17, 17, 19, 19, 21, 21, 23, 25, 25, 27, 27, 29, 31, 31, 33,
       35, 35, 37, 39, 41, 41, 43, 45, 47, 47, 49, 51, 53, 55, 57, 59,
       61, 63, 65, 67, 69, 71, 73, 75, 77, 79, 81, 83, 85, 87, 91, 93,
       95, 97, 99, 103, 105, 107, 111, 113, 115, 119, 121, 125, 127, 129, 133, 135,
       139, 141, 145, 149, 151, 155, 157, 161, 165, 167, 171, 175, 179, 183, 185, 189,
       193, 197, 201, 205, 209, 213, 217, 221, 225, 229, 233, 237, 241, 245, 251, 255,
       259, 263, 269, 273, 277, 283, 287, 293, 297, 303, 307, 313, 319, 323, 329, 335,
       339, 345, 351, 357, 363, 369, 375, 381, 387, 393, 399, 405, 411, 419, 425, 431,
       439, 445, 453, 459, 467, 473, 481, 489, 497, 503, 511, 519, 527, 535, 543, 553,
       561, 569, 579, 587, 595, 605, 615, 623, 633, 643, 653, 663, 673, 683, 695, 705,
       717, 727, 739, 751, 761, 773, 785, 799, 811, 823, 837, 851, 865, 879, 893, 907,
       923, 937, 953, 969, 985, 1003, 1019, 1037, 1055, 1073, 1093, 1113, 1133, 1153, 1175, 1197,
       1219, 1243, 1267, 1293, 1319, 1345, 1375, 1403, 1435, 1465, 1499, 1535, 1571, 1609, 1651, 1693,
       1739, 1789, 1841, 1899, 1959, 2027, 2101, 2183, 2275, 2381, 2505, 2653, 2839, 3087, 3463, 4275 >>

\* fn_tab1[i], built by OPL_initalize:
\* (UINT32)((float)i * 64 * freqbase * (1 << (FREQ_SH - 10)))
fn_tab1 ==
    << 0, 4617, 9235, 13852, 18470, 23088, 27705, 32323, 36940, 41558, 46176, 50793, 55411, 60028, 64646, 69264,
       73881, 78499, 83116, 87734, 92352, 96969, 101587, 106204, 110822, 115440, 120057, 124675, 129292, 133910, 138528, 143145,
       147763, 152380, 156998, 161616, 166233, 170851, 175468, 180086, 184704, 189321, 193939, 198556, 203174, 207792, 212409, 217027,
       221645, 226262, 230880, 235497, 240115, 244733, 249350, 253968, 258585, 263203, 267821, 272438, 277056, 281673, 286291, 290909,
       295526, 300144, 304761, 309379, 313997, 318614, 323232, 327849, 332467, 337085, 341702, 346320, 350937, 355555, 360173, 364790,
       369408, 374025, 378643, 383261, 387878, 392496, 397113, 401731, 406349, 410966, 415584, 420201, 424819, 429437, 434054, 438672,
       443290, 447907, 452525, 457142, 461760, 466378, 470995, 475613, 480230, 484848, 489466, 494083, 498701, 503318, 507936, 512554,
       517171, 521789, 526406, 531024, 535642, 540259, 544877, 549494, 554112, 558730, 563347, 567965, 572582, 577200, 581818, 586435,
       591053, 595670, 600288, 604906, 609523, 614141, 618758, 623376, 627994, 632611, 637229, 641846, 646464, 651082, 655699, 660317,
       664935, 669552, 674170, 678787, 683405, 688023, 692640, 697258, 701875, 706493, 711111, 715728, 720346, 724963, 729581, 734199,
       738816, 743434, 748051, 752669, 757287, 761904, 766522, 771139, 775757, 780375, 784992, 789610, 794227, 798845, 803463, 808080,
       812698, 817315, 821933, 826551, 831168, 835786, 840403, 845021, 849639, 854256, 858874, 863491, 868109, 872727, 877344, 881962,
       886580, 891197, 895815, 900432, 905050, 909668, 914285, 918903, 923520, 928138, 932756, 937373, 941991, 946608, 951226, 955844,
       960461, 965079, 969696, 974314, 978932, 983549, 988167, 992784, 997402, 1002020, 1006637, 1011255, 1015872, 1020490, 1025108, 1029725,
       1034343, 1038960, 1043578, 1048196, 1052813, 1057431, 1062048, 1066666, 1071284, 1075901, 1080519, 1085137, 1089754, 1094372, 1098989, 1103607,
       1108225, 1112842, 1117460, 1122077, 1126695, 1131313, 1135930, 1140548, 1145165, 1149783, 1154401, 1159018, 1163636, 1168253, 1172871, 1177489,
       1182106, 1186724, 1191341, 1195959, 1200577, 1205194, 1209812, 1214429, 1219047, 1223665, 1228282, 1232900, 1237517, 1242135, 1246753, 1251370,
       1255988, 1260605, 1265223, 1269841, 1274458, 1279076, 1283693, 1288311, 1292929, 1297546, 1302164, 1306781, 1311399, 1316017, 1320634, 1325252,
       1329870, 1334487, 1339105, 1343722, 1348340, 1352958, 1357575, 1362193, 1366810, 1371428, 1376046, 1380663, 1385281, 1389898, 1394516, 1399134,
       1403751, 1408369, 1412986, 1417604, 1422222, 1426839, 1431457, 1436074, 1440692, 1445310, 1449927, 1454545, 1459162, 1463780, 1468398, 1473015,
       1477633, 1482250, 1486868, 1491486, 1496103, 1500721, 1505338, 1509956, 1514574, 1519191, 1523809, 1528426, 1533044, 1537662, 1542279, 1546897,
       1551515, 1556132, 1560750, 1565367, 1569985, 1574603, 1579220, 1583838, 1588455, 1593073, 1597691, 1602308, 1606926, 1611543, 1616161, 1620779,
       1625396, 1630014, 1634631, 1639249, 1643867, 1648484, 1653102, 1657719, 1662337, 1666955, 1671572, 1676190, 1680807, 1685425, 1690043, 1694660,
       1699278, 1703895, 1708513, 1713131, 1717748, 1722366, 1726983, 1731601, 1736219, 1740836, 1745454, 1750071, 1754689, 1759307, 1763924, 1768542,
       1773160, 1777777, 1782395, 1787012, 1791630, 1796248, 1800865, 1805483, 1810100, 1814718, 1819336, 1823953, 1828571, 1833188, 1837806, 1842424,
       1847041, 1851659, 1856276, 1860894, 1865512, 1870129, 1874747, 1879364, 1883982, 1888600, 1893217, 1897835, 1902452, 1907070, 1911688, 1916305,
       1920923, 1925540, 1930158, 1934776, 1939393, 1944011, 1948628, 1953246, 1957864, 1962481, 1967099, 1971716, 1976334, 1980952, 1985569, 1990187,
       1994804, 1999422, 2004040, 2008657, 2013275, 2017893, 2022510, 2027128, 2031745, 2036363, 2040981, 2045598, 2050216, 2054833, 2059451, 2064069,
       2068686, 2073304, 2077921, 2082539, 2087157, 2091774, 2096392, 2101009, 2105627, 2110245, 2114862, 2119480, 2124097, 2128715, 2133333, 2137950,
       2142568, 2147185, 2151803, 2156421, 2161038, 2165656, 2170274, 2174891, 2179509, 2184126, 2188744, 2193362, 2197979, 2202597, 2207214, 2211832,
       2216450, 2221067, 2225685, 2230302, 2234920, 2239538, 2244155, 2248773, 2253390, 2258008, 2262626, 2267243, 2271861, 2276478, 2281096, 2285714,
       2290331, 2294949, 2299566, 2304184, 2308802, 2313419, 2318037, 2322654, 2327272, 2331890, 2336507, 2341125, 2345742, 2350360, 2354978, 2359595,
       2364213, 2368830, 2373448, 2378066, 2382683, 2387301, 2391918, 2396536, 2401154, 2405771, 2410389, 2415007, 2419624, 2424242, 2428859, 2433477,
       2438095, 2442712, 2447330, 2451947, 2456565, 2461183, 2465800, 2470418, 2475035, 2479653, 2484271, 2488888, 2493506, 2498123, 2502741, 2507359,
       2511976, 2516594, 2521211, 2525829, 2530447, 2535064, 2539682, 2544299, 2548917, 2553535, 2558152, 2562770, 2567387, 2572005, 2576623, 2581240,
       2585858, 2590475, 2595093, 2599711, 2604328, 2608946, 2613563, 2618181, 2622799, 2627416, 2632034, 2636652, 2641269, 2645887, 2650504, 2655122,
       2659740, 2664357, 2668975, 2673592, 2678210, 2682828, 2687445, 2692063, 2696680, 2701298, 2705916, 2710533, 2715151, 2719768, 2724386, 2729004,
       2733621, 2738239, 2742856, 2747474, 2752092, 2756709, 2761327, 2765944, 2770562, 2775180, 2779797, 2784415, 2789032, 2793650, 2798268, 2802885,
       2807503, 2812120, 2816738, 2821356, 2825973, 2830591, 2835208, 2839826, 2844444, 2849061, 2853679, 2858297, 2862914, 2867532, 2872149, 2876767,
       2881385, 2886002, 2890620, 2895237, 2899855, 2904473, 2909090, 2913708, 2918325, 2922943, 2927561, 2932178, 2936796, 2941413, 2946031, 2950649,
       2955266, 2959884, 2964501, 2969119, 2973737, 2978354, 2982972, 2987589, 2992207, 2996825, 3001442, 3006060, 3010677, 3015295, 3019913, 3024530,
       3029148, 3033765, 3038383, 3043001, 3047618, 3052236, 3056853, 3061471, 3066089, 3070706, 3075324, 3079941, 3084559, 3089177, 3093794, 3098412,
       3103030, 3107647, 3112265, 3116882, 3121500, 3126118, 3130735, 3135353, 3139970, 3144588, 3149206, 3153823, 3158441, 3163058, 3167676, 3172294,
       3176911, 3181529, 3186146, 3190764, 3195382, 3199999, 3204617, 3209234, 3213852, 3218470, 3223087, 3227705, 3232322, 3236940, 3241558, 3246175,
       3250793, 3255410, 3260028, 3264646, 3269263, 3273881, 3278498, 3283116, 3287734, 3292351, 3296969, 3301586, 3306204, 3310822, 3315439, 3320057,
       3324675, 3329292, 3333910, 3338527, 3343145, 3347763, 3352380, 3356998, 3361615, 3366233, 3370851, 3375468, 3380086, 3384703, 3389321, 3393939,
       3398556, 3403174, 3407791, 3412409, 3417027, 3421644, 3426262, 3430879, 3435497, 3440115, 3444732, 3449350, 3453967, 3458585, 3463203, 3467820,
       3472438, 3477055, 3481673, 3486291, 3490908, 3495526, 3500143, 3504761, 3509379, 3513996, 3518614, 3523231, 3527849, 3532467, 3537084, 3541702,
       3546320, 3550937, 3555555, 3560172, 3564790, 3569408, 3574025, 3578643, 3583260, 3587878, 3592496, 3597113, 3601731, 3606348, 3610966, 3615584,
       3620201, 3624819, 3629436, 3634054, 3638672, 3643289, 3647907, 3652524, 3657142, 3661760, 3666377, 3670995, 3675612, 3680230, 3684848, 3689465,
       3694083, 3698700, 3703318, 3707936, 3712553, 3717171, 3721788, 3726406, 3731024, 3735641, 3740259, 3744876, 3749494, 3754112, 3758729, 3763347,
       3767964, 3772582, 3777200, 3781817, 3786435, 3791053, 3795670, 3800288, 3804905, 3809523, 3814141, 3818758, 3823376, 3827993, 3832611, 3837229,
       3841846, 3846464, 3851081, 3855699, 3860317, 3864934, 3869552, 3874169, 3878787, 3883405, 3888022, 3892640, 3897257, 3901875, 3906493, 3911110,
       3915728, 3920345, 3924963, 3929581, 3934198, 3938816, 3943433, 3948051, 3952669, 3957286, 3961904, 3966521, 3971139, 3975757, 3980374, 3984992,
       3989609, 3994227, 3998845, 4003462, 4008080, 4012698, 4017315, 4021933, 4026550, 4031168, 4035786, 4040403, 4045021, 4049638, 4054256, 4058874,
       4063491, 4068109, 4072726, 4077344, 4081962, 4086579, 4091197, 4095814, 4100432, 4105050, 4109667, 4114285, 4118902, 4123520, 4128138, 4132755,
       4137373, 4141990, 4146608, 4151226, 4155843, 4160461, 4165078, 4169696, 4174314, 4178931, 4183549, 4188166, 4192784, 4197402, 4202019, 4206637,
       4211255, 4215872, 4220490, 4225107, 4229725, 4234343, 4238960, 4243578, 4248195, 4252813, 4257431, 4262048, 4266666, 4271283, 4275901, 4280519,
       4285136, 4289754, 4294371, 4298989, 4303607, 4308224, 4312842, 4317459, 4322077, 4326695, 4331312, 4335930, 4340548, 4345165, 4349783, 4354400,
       4359018, 4363636, 4368253, 4372871, 4377488, 4382106, 4386724, 4391341, 4395959, 4400576, 4405194, 4409812, 4414429, 4419047, 4423664, 4428282,
       4432900, 4437517, 4442135, 4446752, 4451370, 4455988, 4460605, 4465223, 4469840, 4474458, 4479076, 4483693, 4488311, 4492928, 4497546, 4502164,
       4506781, 4511399, 4516016, 4520634, 4525252, 4529869, 4534487, 4539104, 4543722, 4548340, 4552957, 4557575, 4562193, 4566810, 4571428, 4576045,
       4580663, 4585281, 4589898, 4594516, 4599133, 4603751, 4608369, 4612986, 4617604, 4622221, 4626839, 4631457, 4636074, 4640692, 4645309, 4649927,
       4654545, 4659162, 4663780, 4668397, 4673015, 4677633, 4682250, 4686868, 4691485, 4696103, 4700721, 4705338, 4709956, 4714573, 4719191, 4723809 >>

OPL_initalize_lfo_am_inc == 295526
OPL_initalize_lfo_pm_inc == 18470
OPL_initalize_noise_f == 73881
OPL_initalize_eg_timer_add == 73881
OPL_initalize_eg_timer_overflow == 2 ^ EG_SH

-----------------------------------------------------------------------------
(* Status flags                                                            *)

OPL_STATUS_SET(O, flag) ==
    [O EXCEPT !.status = Local([s \in {BitOr(O.status, flag)} |->
        IF Bit(s, 7) = 0 /\ BitAnd(s, O.statusmask) # 0 THEN BitOr(s, 128) ELSE s])]

OPL_STATUS_RESET(O, flag) ==
    [O EXCEPT !.status = Local([s \in {BitAnd(O.status, Not32(flag))} |->
        IF Bit(s, 7) = 1 /\ BitAnd(s, O.statusmask) = 0 THEN BitAnd(s, 127) ELSE s])]

-----------------------------------------------------------------------------
(* Key on / key off                                                        *)

\* A faulty FM_KEYON that starts the attack from silence
FM_KEYON_silent(SLOT, key_set) ==
    LET S1 == IF SLOT.key = 0
              THEN [SLOT EXCEPT !.Cnt = << 0, 0 >>, !.state = EG_ATT,
                                !.volume = MAX_ATT_INDEX]
              ELSE SLOT
    IN  [S1 EXCEPT !.key = BitOr(SLOT.key, key_set)]

\* A faulty FM_KEYON that toggles the source bit instead of setting it
FM_KEYON_toggle(SLOT, key_set) ==
    LET S1 == IF SLOT.key = 0
              THEN [SLOT EXCEPT !.Cnt = << 0, 0 >>, !.state = EG_ATT]
              ELSE SLOT
    IN  [S1 EXCEPT !.key = BitXor(SLOT.key, key_set)]

FM_KEYON(SLOT, key_set) ==
    LET S1 == IF SLOT.key = 0
              THEN [SLOT EXCEPT !.Cnt = << 0, 0 >>, !.state = EG_ATT]
              ELSE SLOT
    IN  [S1 EXCEPT !.key = BitOr(SLOT.key, key_set)]

\* A faulty FM_KEYOFF that clears the source and leaves the envelope
FM_KEYOFF_hold(SLOT, key_clr) ==
    IF SLOT.key # 0 THEN [SLOT EXCEPT !.key = BitAnd(SLOT.key, key_clr)] ELSE SLOT

\* A faulty FM_KEYOFF that releases whatever sources remain
FM_KEYOFF_release(SLOT, key_clr) ==
    IF SLOT.key # 0
    THEN [SLOT EXCEPT !.key = BitAnd(SLOT.key, key_clr),
                      !.state = IF SLOT.state > EG_REL THEN EG_REL ELSE @]
    ELSE SLOT

FM_KEYOFF(SLOT, key_clr) ==
    IF SLOT.key # 0
    THEN Local([k \in {BitAnd(SLOT.key, key_clr)} |->
            [SLOT EXCEPT !.key = k,
                         !.state = IF k = 0 /\ SLOT.state > EG_REL THEN EG_REL ELSE @]])
    ELSE SLOT

-----------------------------------------------------------------------------
(* Derived operator parameters                                             *)

\* attack (shift, selector) for rate index ar + ksr
AttackShift(rate) == IF rate < 16 + 62 THEN eg_rate_shift[rate + 1] ELSE 0
\* A faulty selector whose fastest attacks use the row of increments by 4
AttackSelectBy4(rate) == IF rate < 16 + 62 THEN eg_rate_select[rate + 1] ELSE 12 * RATE_STEPS

AttackSelect(rate) == IF rate < 16 + 62 THEN eg_rate_select[rate + 1] ELSE 13 * RATE_STEPS

\* CALC_FCSLOT without the recalculation of the envelope rates when the key
\* scale rate changes
CALC_FCSLOT_rates(CH, SLOT) ==
    [SLOT EXCEPT !.Incr = CH.fc * SLOT.mul, !.ksr = Shr(CH.kcode, SLOT.KSR)]

CALC_FCSLOT(CH, SLOT) ==
    LET ksr == Shr(CH.kcode, SLOT.KSR)
        S1  == [SLOT EXCEPT !.Incr = CH.fc * SLOT.mul]
    IN  IF SLOT.ksr # ksr
        THEN [S1 EXCEPT !.ksr = ksr,
                        !.eg_sh_ar = AttackShift(SLOT.ar + ksr),
                        !.eg_sel_ar = AttackSelect(SLOT.ar + ksr),
                        !.eg_sh_dr = eg_rate_shift[SLOT.dr + ksr + 1],
                        !.eg_sel_dr = eg_rate_select[SLOT.dr + ksr + 1],
                        !.eg_sh_rr = eg_rate_shift[SLOT.rr + ksr + 1],
                        !.eg_sel_rr = eg_rate_select[SLOT.rr + ksr + 1]]
        ELSE S1

set_mul(O, slot, v) ==
    LET CH == O.P_CH[slot \div 2]
        S1 == [CH.SLOT[slot % 2] EXCEPT
                  !.mul = mul_tab8[(v % 16) + 1] % UINT8,
                  !.KSR = IF Bit(v, 4) = 1 THEN 0 ELSE 2,
                  !.eg_type = BitAnd(v, 32),
                  !.vib = BitAnd(v, 64),
                  !.AMmask = IF Bit(v, 7) = 1 THEN Not32(0) ELSE 0]
    IN  [O EXCEPT !.P_CH[slot \div 2].SLOT[slot % 2] = CALC_FCSLOT(CH, S1)]

set_ksl_tl(O, slot, v) ==
    LET CH  == O.P_CH[slot \div 2]
        ksl == Shr(v, 6)
        kslv == IF ksl # 0 THEN 3 - ksl ELSE 31
        TL  == Shl(v % 64, ENV_BITS - 1 - 7)
    IN  [O EXCEPT !.P_CH[slot \div 2].SLOT[slot % 2] =
            [@ EXCEPT !.ksl = kslv, !.TL = TL, !.TLL = TL + Shr(CH.ksl_base, kslv)]]

\* A faulty set_ar_dr that looks a rate of zero up as the slowest rate
set_ar_dr_slowest(O, slot, v) ==
    LET SLOT == O.P_CH[slot \div 2].SLOT[slot % 2]
        ar == IF Shr(v, 4) # 0 THEN 16 + Shl(Shr(v, 4), 2) ELSE 0
        dr == IF v % 16 # 0 THEN 16 + Shl(v % 16, 2) ELSE 0
        a1 == IF ar = 0 THEN 16 ELSE ar
        d1 == IF dr = 0 THEN 16 ELSE dr
    IN  [O EXCEPT !.P_CH[slot \div 2].SLOT[slot % 2] =
            [@ EXCEPT !.ar = ar,
                      !.eg_sh_ar = AttackShift(a1 + SLOT.ksr),
                      !.eg_sel_ar = AttackSelect(a1 + SLOT.ksr),
                      !.dr = dr,
                      !.eg_sh_dr = eg_rate_shift[d1 + SLOT.ksr + 1],
                      !.eg_sel_dr = eg_rate_select[d1 + SLOT.ksr + 1]]]

set_ar_dr(O, slot, v) ==
    LET SLOT == O.P_CH[slot \div 2].SLOT[slot % 2]
        ar == IF Shr(v, 4) # 0 THEN 16 + Shl(Shr(v, 4), 2) ELSE 0
        dr == IF v % 16 # 0 THEN 16 + Shl(v % 16, 2) ELSE 0
    IN  [O EXCEPT !.P_CH[slot \div 2].SLOT[slot % 2] =
            [@ EXCEPT !.ar = ar,
                      !.eg_sh_ar = AttackShift(ar + SLOT.ksr),
                      !.eg_sel_ar = AttackSelect(ar + SLOT.ksr),
                      !.dr = dr,
                      !.eg_sh_dr = eg_rate_shift[dr + SLOT.ksr + 1],
                      !.eg_sel_dr = eg_rate_select[dr + SLOT.ksr + 1]]]

set_sl_rr(O, slot, v) ==
    LET SLOT == O.P_CH[slot \div 2].SLOT[slot % 2]
        rr == IF v % 16 # 0 THEN 16 + Shl(v % 16, 2) ELSE 0
    IN  [O EXCEPT !.P_CH[slot \div 2].SLOT[slot % 2] =
            [@ EXCEPT !.sl = Shl(sl_tab[Shr(v, 4) + 1], 1),
                      !.rr = rr,
                      !.eg_sh_rr = eg_rate_shift[rr + SLOT.ksr + 1],
                      !.eg_sel_rr = eg_rate_select[rr + SLOT.ksr + 1]]]

-----------------------------------------------------------------------------
(* OPLWriteReg                                                             *)

\* key on/off of one operator from a source bit: on = the data bit is set
KeySwitch(SLOT, on, src) ==
    IF on THEN FM_KEYON(SLOT, src) ELSE FM_KEYOFF(SLOT, Not32(src))

\* A faulty write of 0xbd that keys the voices without the rhythm enable bit
WriteRhythmKeys(O, v) ==
    LET en == TRUE
        O1 == [O EXCEPT !.lfo_am_depth = BitAnd(v, 128),
                        !.lfo_pm_depth_range = IF Bit(v, 6) = 1 THEN 8 ELSE 0,
                        !.rhythm = v % 64]
    IN  [O1 EXCEPT
            !.P_CH[6].SLOT[SLOT1] = KeySwitch(@, en /\ Bit(v, 4) = 1, 2),
            !.P_CH[6].SLOT[SLOT2] = KeySwitch(@, en /\ Bit(v, 4) = 1, 2),
            !.P_CH[7].SLOT[SLOT1] = KeySwitch(@, en /\ Bit(v, 0) = 1, 2),
            !.P_CH[7].SLOT[SLOT2] = KeySwitch(@, en /\ Bit(v, 3) = 1, 2),
            !.P_CH[8].SLOT[SLOT1] = KeySwitch(@, en /\ Bit(v, 2) = 1, 2),
            !.P_CH[8].SLOT[SLOT2] = KeySwitch(@, en /\ Bit(v, 1) = 1, 2)]

\* A faulty write of 0xbd whose vibrato depth selects a seventeenth column
WriteRhythmDeep(O, v) ==
    LET en == Bit(v, 5) = 1
        O1 == [O EXCEPT !.lfo_am_depth = BitAnd(v, 128),
                        !.lfo_pm_depth_range = IF Bit(v, 6) = 1 THEN 16 ELSE 0,
                        !.rhythm = v % 64]
    IN  [O1 EXCEPT
            !.P_CH[6].SLOT[SLOT1] = KeySwitch(@, en /\ Bit(v, 4) = 1, 2),
            !.P_CH[6].SLOT[SLOT2] = KeySwitch(@, en /\ Bit(v, 4) = 1, 2),
            !.P_CH[7].SLOT[SLOT1] = KeySwitch(@, en /\ Bit(v, 0) = 1, 2),
            !.P_CH[7].SLOT[SLOT2] = KeySwitch(@, en /\ Bit(v, 3) = 1, 2),
            !.P_CH[8].SLOT[SLOT1] = KeySwitch(@, en /\ Bit(v, 2) = 1, 2),
            !.P_CH[8].SLOT[SLOT2] = KeySwitch(@, en /\ Bit(v, 1) = 1, 2)]

\* case 0xa0, r == 0xbd: am depth, vibrato depth, rhythm enable and keys
WriteRhythm(O, v) ==
    LET en == Bit(v, 5) = 1
        O1 == [O EXCEPT !.lfo_am_depth = BitAnd(v, 128),
                        !.lfo_pm_depth_range = IF Bit(v, 6) = 1 THEN 8 ELSE 0,
                        !.rhythm = v % 64]
    IN  [O1 EXCEPT
            !.P_CH[6].SLOT[SLOT1] = KeySwitch(@, en /\ Bit(v, 4) = 1, 2),
            !.P_CH[6].SLOT[SLOT2] = KeySwitch(@, en /\ Bit(v, 4) = 1, 2),
            !.P_CH[7].SLOT[SLOT1] = KeySwitch(@, en /\ Bit(v, 0) = 1, 2),
            !.P_CH[7].SLOT[SLOT2] = KeySwitch(@, en /\ Bit(v, 3) = 1, 2),
            !.P_CH[8].SLOT[SLOT1] = KeySwitch(@, en /\ Bit(v, 2) = 1, 2),
            !.P_CH[8].SLOT[SLOT2] = KeySwitch(@, en /\ Bit(v, 1) = 1, 2)]

\* the "update" block of case 0xa0: the derived values of a channel whose
\* block_fnum changes to block_fnum
UpdateBlockFnum(O, CH, block_fnum) ==
    Local([C1 \in {[CH EXCEPT
            !.block_fnum = block_fnum,
            !.ksl_base = ksl_tab[Shr(block_fnum, 6) + 1],
            !.fc = Shr(fn_tab1[(block_fnum % 1024) + 1], 7 - (Shr(block_fnum, 10) % UINT8)),
            !.kcode = BitOr(Shr(BitAnd(block_fnum, 7168), 9),
                            IF Bit(O.mode, 6) = 1 THEN Bit(block_fnum, 8)
                                                  ELSE Bit(block_fnum, 9))]} |->
            [C1 EXCEPT
                !.SLOT[SLOT1] = CALC_FCSLOT(C1,
                    [@ EXCEPT !.TLL = C1.SLOT[SLOT1].TL + Shr(C1.ksl_base, C1.SLOT[SLOT1].ksl)]),
                !.SLOT[SLOT2] = CALC_FCSLOT(C1,
                    [@ EXCEPT !.TLL = C1.SLOT[SLOT2].TL + Shr(C1.ksl_base, C1.SLOT[SLOT2].ksl)])]])

\* case 0xa0, r != 0xbd: keyon, block, fnum of channel r & 0x0f
WriteFnum(O, r, v) ==
    IF r % 16 > 8 THEN O
    ELSE
      LET c  == r % 16
          CH == O.P_CH[c]
          lowreg == Bit(r, 4) = 0
      IN  [O EXCEPT !.P_CH[c] =
            Local([block_fnum \in {IF lowreg
                 THEN BitOr(BitAnd(CH.block_fnum, 7936), v)
                 ELSE BitOr(Shl(v % 32, 8), CH.block_fnum % 256)} |->
            Local([C1 \in {IF lowreg THEN CH
                 ELSE [CH EXCEPT !.SLOT[SLOT1] = KeySwitch(@, Bit(v, 5) = 1, 1),
                                 !.SLOT[SLOT2] = KeySwitch(@, Bit(v, 5) = 1, 1)]} |->
                IF C1.block_fnum # block_fnum
                THEN UpdateBlockFnum(O, C1, block_fnum) ELSE C1])])]

\* case 0xc0: FB, C
WriteFbCon(O, r, v) ==
    IF r % 16 > 8 THEN O
    ELSE
      LET fb == Shr(v, 1) % 8
      IN  [O EXCEPT !.P_CH[r % 16].SLOT[SLOT1] =
              [@ EXCEPT !.FB = IF fb # 0 THEN fb + 7 ELSE 0,
                        !.CON = v % 2,
                        !.connect1 = IF v % 2 # 0 THEN "output" ELSE "phase_modulation"]]

\* A faulty case 0xe0 that does not look at the wave select enable
WriteWaveAlways(O, r, v) ==
    LET slot == slot_array[(r % 32) + 1]
    IN  IF slot < 0 THEN O
        ELSE [O EXCEPT !.P_CH[slot \div 2].SLOT[slot % 2].wavetable = v % 4]

\* case 0xe0: waveform select
WriteWave(O, r, v) ==
    IF O.wavesel # 0
    THEN LET slot == slot_array[(r % 32) + 1]
         IN  IF slot < 0 THEN O
             ELSE [O EXCEPT !.P_CH[slot \div 2].SLOT[slot % 2].wavetable = v % 4]
    ELSE O

\* case 0x00: control registers
WriteControl(O, r, v) ==
    CASE r % 32 = 1 ->
            IF BitAnd(O.type, OPL_TYPE_WAVESEL) # 0
            THEN [O EXCEPT !.wavesel = BitAnd(v, 32)]
            ELSE O
      [] r % 32 = 8 -> [O EXCEPT !.mode = v]
      [] OTHER -> O

\* A faulty OPLWriteReg whose case 0x80 does not return on slot < 0 and
\* writes P_CH[slot / 2].SLOT[slot & 1] with slot = -1
OPLWriteRegUnchecked(O, r0, v0) ==
    LET r == r0 % 256
        v == v0 % 256
        blk == r - (r % 32)
        slot == slot_array[(r % 32) + 1]
    IN  CASE blk = 0   -> WriteControl(O, r, v)
          [] blk = 32  -> IF slot < 0 THEN O ELSE set_mul(O, slot, v)
          [] blk = 64  -> IF slot < 0 THEN O ELSE set_ksl_tl(O, slot, v)
          [] blk = 96  -> IF slot < 0 THEN O ELSE set_ar_dr(O, slot, v)
          [] blk = 128 -> set_sl_rr(O, IF slot < 0 THEN 1 ELSE slot, v)
          [] blk = 160 -> IF r = 189 THEN WriteRhythm(O, v) ELSE WriteFnum(O, r, v)
          [] blk = 192 -> WriteFbCon(O, r, v)
          [] blk = 224 -> WriteWave(O, r, v)

OPLWriteReg(O, r0, v0) ==
    LET r == r0 % 256
        v == v0 % 256
        blk == r - (r % 32)
        slot == slot_array[(r % 32) + 1]
    IN  CASE blk = 0   -> WriteControl(O, r, v)
          [] blk = 32  -> IF slot < 0 THEN O ELSE set_mul(O, slot, v)
          [] blk = 64  -> IF slot < 0 THEN O ELSE set_ksl_tl(O, slot, v)
          [] blk = 96  -> IF slot < 0 THEN O ELSE set_ar_dr(O, slot, v)
          [] blk = 128 -> IF slot < 0 THEN O ELSE set_sl_rr(O, slot, v)
          [] blk = 160 -> IF r = 189 THEN WriteRhythm(O, v) ELSE WriteFnum(O, r, v)
          [] blk = 192 -> WriteFbCon(O, r, v)
          [] blk = 224 -> WriteWave(O, r, v)

-----------------------------------------------------------------------------
(* Creation and reset                                                      *)

\* an operator and a channel after memset(ptr, 0, state_size)
ZeroSlot ==
    [ ar |-> 0, dr |-> 0, rr |-> 0, KSR |-> 0, ksl |-> 0, ksr |-> 0, mul |-> 0,
      Cnt |-> << 0, 0 >>, Incr |-> 0, FB |-> 0, connect1 |-> "NULL", op1_out |-> << 0, 0 >>,
      CON |-> 0, eg_type |-> 0, state |-> 0, TL |-> 0, TLL |-> 0, volume |-> 0,
      sl |-> 0, eg_sh_ar |-> 0, eg_sel_ar |-> 0, eg_sh_dr |-> 0, eg_sel_dr |-> 0,
      eg_sh_rr |-> 0, eg_sel_rr |-> 0, key |-> 0, AMmask |-> 0, vib |-> 0,
      wavetable |-> 0 ]

ZeroCh ==
    [ SLOT |-> EachSLOT([ s \in 0..1 |-> ZeroSlot ]),
      block_fnum |-> 0, fc |-> 0, ksl_base |-> 0, kcode |-> 0 ]

OPLCreate ==
    [ type |-> OPL_TYPE_YM3812,
      P_CH |-> EachCH([ c \in 0..8 |-> ZeroCh ]),
      eg_cnt |-> 0, eg_timer |-> 0,
      eg_timer_add |-> OPL_initalize_eg_timer_add,
      eg_timer_overflow |-> OPL_initalize_eg_timer_overflow,
      rhythm |-> 0,
      lfo_am_depth |-> 0, lfo_pm_depth_range |-> 0,
      lfo_am_cnt |-> << 0, 0 >>, lfo_am_inc |-> OPL_initalize_lfo_am_inc,
      lfo_pm_cnt |-> << 0, 0 >>, lfo_pm_inc |-> OPL_initalize_lfo_pm_inc,
      noise_rng |-> 0, noise_p |-> 0, noise_f |-> OPL_initalize_noise_f,
      wavesel |-> 0,
      address |-> 0, status |-> 0, statusmask |-> 0, mode |-> 0 ]

\* the registers OPLResetChip clears, in its order: 0x01, 0x02, 0x03, 0x04,
\* then 0xff down to 0x20
ClearedReg(i) == IF i <= 4 THEN i ELSE 260 - i

\* OPLWriteReg(OPL, ClearedReg(i), 0) for i = from, ..., to (from <= to), the
\* range being halved to keep the evaluation shallow
RECURSIVE ClearRegs(_, _, _)
ClearRegs(O, from, to) ==
    IF from = to THEN OPLWriteReg(O, ClearedReg(from), 0)
    ELSE Local([O1 \in {ClearRegs(O, from, (from + to) \div 2)} |->
            ClearRegs(O1, ((from + to) \div 2) + 1, to)])

\* A faulty reset loop that leaves the envelope as it is
ResetSlotWave(SLOT) == [SLOT EXCEPT !.wavetable = 0, !.connect1 = "output"]

\* A faulty reset loop that switches the envelope off at its attenuation
ResetSlotOff(SLOT) ==
    [SLOT EXCEPT !.wavetable = 0, !.state = EG_OFF,
                 !.connect1 = "output"]

\* the final loop of OPLResetChip over one operator
ResetSlot(SLOT) ==
    [SLOT EXCEPT !.wavetable = 0, !.state = EG_OFF, !.volume = MAX_ATT_INDEX,
                 !.connect1 = "output"]

OPLResetChip(O) ==
    Local([O1 \in {ClearRegs(OPL_STATUS_RESET([O EXCEPT !.eg_timer = 0, !.eg_cnt = 0,
                                              !.noise_rng = 1, !.mode = 0], 127),
                   1, 228)} |->
            [O1 EXCEPT !.P_CH = EachCH([ c \in 0..8 |->
                [O1.P_CH[c] EXCEPT !.SLOT = EachSLOT([ s \in 0..1 |->
                    ResetSlot(O1.P_CH[c].SLOT[s]) ])] ])]])

ym3812_init == OPLResetChip(OPLCreate)

-----------------------------------------------------------------------------
(* Per-sample clocks                                                       *)

\* The synthesis state threaded through one sample: the chip and the statics
\* LFO_AM, LFO_PM, output[0], phase_modulation, lastChOutput.

advance_lfo(M) ==
    Local([am0 \in {Add32(M.OPL.lfo_am_cnt, M.OPL.lfo_am_inc, LFO_SH)} |->
    Local([pm \in {Add32(M.OPL.lfo_pm_cnt, M.OPL.lfo_pm_inc, LFO_SH)} |->
        LET am  == IF am0[1] >= LFO_AM_TAB_ELEMENTS
                   THEN << am0[1] - LFO_AM_TAB_ELEMENTS, am0[2] >> ELSE am0
            tmp == lfo_am_table[am[1] + 1]
        IN  [M EXCEPT !.OPL.lfo_am_cnt = am,
                      !.OPL.lfo_pm_cnt = pm,
                      !.LFO_AM = IF M.OPL.lfo_am_depth # 0 THEN tmp ELSE Shr(tmp, 2),
                      !.LFO_PM = BitOr(pm[1] % 8, M.OPL.lfo_pm_depth_range)]])])

\* A faulty envelope increment with the sign reversed
EgIncReversed(sel, sh, eg_cnt) == 0 - eg_inc[sel + (Shr(eg_cnt, sh) % 8) + 1]

\* eg_inc[sel + ((eg_cnt >> sh) & 7)]
EgInc(sel, sh, eg_cnt) == eg_inc[sel + (Shr(eg_cnt, sh) % 8) + 1]

\* A faulty envelope clock that never fires for a rate without shift
EgFiresShifted(sh, eg_cnt) == sh > 0 /\ eg_cnt % (2 ^ sh) = 0

\* !(eg_cnt & ((1 << sh) - 1))
EgFires(sh, eg_cnt) == eg_cnt % (2 ^ sh) = 0

\* A faulty envelope switch that does not clamp the release at MAX_ATT_INDEX
EnvelopeStepUnclamped(op, eg_cnt) ==
    CASE op.state = EG_ATT ->
            IF EgFires(op.eg_sh_ar, eg_cnt)
            THEN LET vol == op.volume +
                            (((-op.volume - 1) * EgInc(op.eg_sel_ar, op.eg_sh_ar, eg_cnt)) \div 8)
                 IN  IF vol <= MIN_ATT_INDEX
                     THEN [op EXCEPT !.volume = MIN_ATT_INDEX, !.state = EG_DEC]
                     ELSE [op EXCEPT !.volume = vol]
            ELSE op
      [] op.state = EG_DEC ->
            IF EgFires(op.eg_sh_dr, eg_cnt)
            THEN LET vol == op.volume + EgInc(op.eg_sel_dr, op.eg_sh_dr, eg_cnt)
                 IN  [op EXCEPT !.volume = vol,
                                !.state = IF vol >= op.sl THEN EG_SUS ELSE @]
            ELSE op
      [] op.state = EG_SUS ->
            IF op.eg_type # 0 THEN op
            ELSE IF EgFires(op.eg_sh_rr, eg_cnt)
            THEN LET vol == op.volume + EgInc(op.eg_sel_rr, op.eg_sh_rr, eg_cnt)
                 IN  [op EXCEPT !.volume = IF vol >= MAX_ATT_INDEX THEN MAX_ATT_INDEX ELSE vol]
            ELSE op
      [] op.state = EG_REL ->
            IF EgFires(op.eg_sh_rr, eg_cnt)
            THEN LET vol == op.volume + EgInc(op.eg_sel_rr, op.eg_sh_rr, eg_cnt)
                 IN  [op EXCEPT !.volume = vol,
                                !.state = IF vol >= MAX_ATT_INDEX THEN EG_OFF ELSE @]
            ELSE op
      [] OTHER -> op

\* A faulty envelope switch whose percussive sustain falls into release
EnvelopeStepPercussive(op, eg_cnt) ==
    CASE op.state = EG_ATT ->
            IF EgFires(op.eg_sh_ar, eg_cnt)
            THEN LET vol == op.volume +
                            (((-op.volume - 1) * EgInc(op.eg_sel_ar, op.eg_sh_ar, eg_cnt)) \div 8)
                 IN  IF vol <= MIN_ATT_INDEX
                     THEN [op EXCEPT !.volume = MIN_ATT_INDEX, !.state = EG_DEC]
                     ELSE [op EXCEPT !.volume = vol]
            ELSE op
      [] op.state = EG_DEC ->
            IF EgFires(op.eg_sh_dr, eg_cnt)
            THEN LET vol == op.volume + EgInc(op.eg_sel_dr, op.eg_sh_dr, eg_cnt)
                 IN  [op EXCEPT !.volume = vol,
                                !.state = IF vol >= op.sl THEN EG_SUS ELSE @]
            ELSE op
      [] op.state = EG_SUS ->
            IF op.eg_type # 0 THEN op ELSE [op EXCEPT !.state = EG_REL]
      [] op.state = EG_REL ->
            IF EgFires(op.eg_sh_rr, eg_cnt)
            THEN LET vol == op.volume + EgInc(op.eg_sel_rr, op.eg_sh_rr, eg_cnt)
                 IN  IF vol >= MAX_ATT_INDEX
                     THEN [op EXCEPT !.volume = MAX_ATT_INDEX, !.state = EG_OFF]
                     ELSE [op EXCEPT !.volume = vol]
            ELSE op
      [] OTHER -> op

\* A faulty envelope switch that ends the attack at the first clocked tick
EnvelopeStepShortAttack(op, eg_cnt) ==
    CASE op.state = EG_ATT ->
            IF EgFires(op.eg_sh_ar, eg_cnt)
            THEN LET vol == op.volume +
                            (((-op.volume - 1) * EgInc(op.eg_sel_ar, op.eg_sh_ar, eg_cnt)) \div 8)
                 IN  [op EXCEPT !.volume = IF vol <= MIN_ATT_INDEX THEN MIN_ATT_INDEX ELSE vol,
                                !.state = EG_DEC]
            ELSE op
      [] op.state = EG_DEC ->
            IF EgFires(op.eg_sh_dr, eg_cnt)
            THEN LET vol == op.volume + EgInc(op.eg_sel_dr, op.eg_sh_dr, eg_cnt)
                 IN  [op EXCEPT !.volume = vol,
                                !.state = IF vol >= op.sl THEN EG_SUS ELSE @]
            ELSE op
      [] op.state = EG_SUS ->
            IF op.eg_type # 0 THEN op
            ELSE IF EgFires(op.eg_sh_rr, eg_cnt)
            THEN LET vol == op.volume + EgInc(op.eg_sel_rr, op.eg_sh_rr, eg_cnt)
                 IN  [op EXCEPT !.volume = IF vol >= MAX_ATT_INDEX THEN MAX_ATT_INDEX ELSE vol]
            ELSE op
      [] op.state = EG_REL ->
            IF EgFires(op.eg_sh_rr, eg_cnt)
            THEN LET vol == op.volume + EgInc(op.eg_sel_rr, op.eg_sh_rr, eg_cnt)
                 IN  IF vol >= MAX_ATT_INDEX
                     THEN [op EXCEPT !.volume = MAX_ATT_INDEX, !.state = EG_OFF]
                     ELSE [op EXCEPT !.volume = vol]
            ELSE op
      [] OTHER -> op

\* A faulty envelope switch whose percussive sustain ends in OFF at
\* MAX_ATT_INDEX, as the release does
EnvelopeStepSustainEnds(op, eg_cnt) ==
    CASE op.state = EG_ATT ->
            IF EgFires(op.eg_sh_ar, eg_cnt)
            THEN LET vol == op.volume +
                            (((-op.volume - 1) * EgInc(op.eg_sel_ar, op.eg_sh_ar, eg_cnt)) \div 8)
                 IN  IF vol <= MIN_ATT_INDEX
                     THEN [op EXCEPT !.volume = MIN_ATT_INDEX, !.state = EG_DEC]
                     ELSE [op EXCEPT !.volume = vol]
            ELSE op
      [] op.state = EG_DEC ->
            IF EgFires(op.eg_sh_dr, eg_cnt)
            THEN LET vol == op.volume + EgInc(op.eg_sel_dr, op.eg_sh_dr, eg_cnt)
                 IN  [op EXCEPT !.volume = vol,
                                !.state = IF vol >= op.sl THEN EG_SUS ELSE @]
            ELSE op
      [] op.state = EG_SUS ->
            IF op.eg_type # 0 THEN op
            ELSE IF EgFires(op.eg_sh_rr, eg_cnt)
            THEN LET vol == op.volume + EgInc(op.eg_sel_rr, op.eg_sh_rr, eg_cnt)
                 IN  IF vol >= MAX_ATT_INDEX
                     THEN [op EXCEPT !.volume = MAX_ATT_INDEX, !.state = EG_OFF]
                     ELSE [op EXCEPT !.volume = vol]
            ELSE op
      [] op.state = EG_REL ->
            IF EgFires(op.eg_sh_rr, eg_cnt)
            THEN LET vol == op.volume + EgInc(op.eg_sel_rr, op.eg_sh_rr, eg_cnt)
                 IN  IF vol >= MAX_ATT_INDEX
                     THEN [op EXCEPT !.volume = MAX_ATT_INDEX, !.state = EG_OFF]
                     ELSE [op EXCEPT !.volume = vol]
            ELSE op
      [] OTHER -> op

\* A faulty envelope switch whose release rests at MAX_ATT_INDEX without
\* entering EG_OFF
EnvelopeStepNoOff(op, eg_cnt) ==
    CASE op.state = EG_ATT ->
            IF EgFires(op.eg_sh_ar, eg_cnt)
            THEN LET vol == op.volume +
                            (((-op.volume - 1) * EgInc(op.eg_sel_ar, op.eg_sh_ar, eg_cnt)) \div 8)
                 IN  IF vol <= MIN_ATT_INDEX
                     THEN [op EXCEPT !.volume = MIN_ATT_INDEX, !.state = EG_DEC]
                     ELSE [op EXCEPT !.volume = vol]
            ELSE op
      [] op.state = EG_DEC ->
            IF EgFires(op.eg_sh_dr, eg_cnt)
            THEN LET vol == op.volume + EgInc(op.eg_sel_dr, op.eg_sh_dr, eg_cnt)
                 IN  [op EXCEPT !.volume = vol,
                                !.state = IF vol >= op.sl THEN EG_SUS ELSE @]
            ELSE op
      [] op.state = EG_SUS ->
            IF op.eg_type # 0 THEN op
            ELSE IF EgFires(op.eg_sh_rr, eg_cnt)
            THEN LET vol == op.volume + EgInc(op.eg_sel_rr, op.eg_sh_rr, eg_cnt)
                 IN  [op EXCEPT !.volume = IF vol >= MAX_ATT_INDEX THEN MAX_ATT_INDEX ELSE vol]
            ELSE op
      [] op.state = EG_REL ->
            IF EgFires(op.eg_sh_rr, eg_cnt)
            THEN LET vol == op.volume + EgInc(op.eg_sel_rr, op.eg_sh_rr, eg_cnt)
                 IN  [op EXCEPT !.volume = IF vol >= MAX_ATT_INDEX THEN MAX_ATT_INDEX ELSE vol]
            ELSE op
      [] OTHER -> op

\* the envelope generator switch of advance for one operator at one tick
EnvelopeStep(op, eg_cnt) ==
    CASE op.state = EG_ATT ->
            IF EgFires(op.eg_sh_ar, eg_cnt)
            THEN LET vol == op.volume +
                            (((-op.volume - 1) * EgInc(op.eg_sel_ar, op.eg_sh_ar, eg_cnt)) \div 8)
                 IN  IF vol <= MIN_ATT_INDEX
                     THEN [op EXCEPT !.volume = MIN_ATT_INDEX, !.state = EG_DEC]
                     ELSE [op EXCEPT !.volume = vol]
            ELSE op
      [] op.state = EG_DEC ->
            IF EgFires(op.eg_sh_dr, eg_cnt)
            THEN LET vol == op.volume + EgInc(op.eg_sel_dr, op.eg_sh_dr, eg_cnt)
                 IN  [op EXCEPT !.volume = vol,
                                !.state = IF vol >= op.sl THEN EG_SUS ELSE @]
            ELSE op
      [] op.state = EG_SUS ->
            IF op.eg_type # 0 THEN op
            ELSE IF EgFires(op.eg_sh_rr, eg_cnt)
            THEN LET vol == op.volume + EgInc(op.eg_sel_rr, op.eg_sh_rr, eg_cnt)
                 IN  [op EXCEPT !.volume = IF vol >= MAX_ATT_INDEX THEN MAX_ATT_INDEX ELSE vol]
            ELSE op
      [] op.state = EG_REL ->
            IF EgFires(op.eg_sh_rr, eg_cnt)
            THEN LET vol == op.volume + EgInc(op.eg_sel_rr, op.eg_sh_rr, eg_cnt)
                 IN  IF vol >= MAX_ATT_INDEX
                     THEN [op EXCEPT !.volume = MAX_ATT_INDEX, !.state = EG_OFF]
                     ELSE [op EXCEPT !.volume = vol]
            ELSE op
      [] OTHER -> op

\* the while loop of advance: one envelope tick per overflow of eg_timer
RECURSIVE EnvelopeTicks(_)
EnvelopeTicks(O) ==
    IF O.eg_timer >= O.eg_timer_overflow
    THEN LET cnt == O.eg_cnt + 1
         IN  EnvelopeTicks([O EXCEPT
                !.eg_timer = O.eg_timer - O.eg_timer_overflow,
                !.eg_cnt = cnt,
                !.P_CH = EachCH([ c \in 0..8 |-> [O.P_CH[c] EXCEPT
                    !.SLOT = EachSLOT([ s \in 0..1 |->
                        EnvelopeStep(O.P_CH[c].SLOT[s], cnt) ])] ])])
    ELSE O

\* the phase generator of advance for one operator
PhaseStep(O, CH, op, lfo_pm) ==
    Local([offset \in {lfo_pm_table[lfo_pm + 16 * Shr(BitAnd(CH.block_fnum, 896), 7) + 1]} |->
        IF op.vib # 0 /\ offset # 0
        THEN LET bf == CH.block_fnum + offset
             IN  [op EXCEPT !.Cnt =
                    Add32(@, Shr(fn_tab1[(bf % 1024) + 1], 7 - Shr(BitAnd(bf, 7168), 10)) * op.mul,
                          FREQ_SH)]
        ELSE [op EXCEPT !.Cnt = Add32(@, op.Incr, FREQ_SH)]])

\* A faulty shift of the noise register that has no feedback
NoiseShiftPlain(rng) == Shr(rng, 1)

\* A faulty shift of the noise register whose feedback enters at bit 23
NoiseShiftWide(rng) ==
    Shr(IF rng % 2 = 1 THEN BitXor(rng, 16777986) ELSE rng, 1)

\* one shift of the noise register
NoiseShift(rng) ==
    Shr(IF rng % 2 = 1 THEN BitXor(rng, 8389378) ELSE rng, 1)

RECURSIVE NoiseShifts(_, _)
NoiseShifts(rng, i) ==
    IF i = 0 THEN rng
    ELSE Local([r \in {NoiseShift(rng)} |-> NoiseShifts(r, i - 1)])

advance(M) ==
    Local([O1 \in {EnvelopeTicks([M.OPL EXCEPT !.eg_timer = @ + M.OPL.eg_timer_add])} |->
        LET np == O1.noise_p + O1.noise_f
        IN  [M EXCEPT !.OPL = [O1 EXCEPT
                !.P_CH = EachCH([ c \in 0..8 |-> [O1.P_CH[c] EXCEPT
                    !.SLOT = EachSLOT([ s \in 0..1 |->
                        PhaseStep(O1, O1.P_CH[c], O1.P_CH[c].SLOT[s], M.LFO_PM) ])] ]),
                !.noise_p = np % (FREQ_MASK + 1),
                !.noise_rng = NoiseShifts(@, Shr(np, FREQ_SH))]]])

-----------------------------------------------------------------------------
(* Operator output                                                         *)

\* A faulty table lookup that lets the attenuation TL_TAB_LEN through
TlLookupLate(p) ==
    IF p > TL_TAB_LEN THEN 0
    ELSE LET h == Shr(p, 1)
             a == Shr(tl_tab[(h % 256) + 1], Shr(h, 8) % UINT8)
         IN  IF p % 2 = 1 THEN -a ELSE a

\* the shared tail of op_calc and op_calc1: attenuation p to linear output
TlLookup(p) ==
    IF p >= TL_TAB_LEN THEN 0
    ELSE LET h == Shr(p, 1)
             a == Shr(tl_tab[(h % 256) + 1], Shr(h, 8) % UINT8)
         IN  IF p % 2 = 1 THEN -a ELSE a

\* A faulty waveform switch whose waveform 2 reads the whole period
WaveOutWhole(i, env, wave_tab) ==
    CASE wave_tab = 1 ->
            IF Bit(i, SIN_BITS - 1) = 1 THEN 0
            ELSE TlLookup(sin_tab[i + 1] + Shl(env, 4))
      [] wave_tab = 3 ->
            IF Bit(i, SIN_BITS - 2) = 1 THEN 0
            ELSE TlLookup(sin_tab[(i % (SIN_LEN \div 4)) + 1] + Shl(env, 4))
      [] OTHER -> TlLookup(sin_tab[i + 1] + Shl(env, 4))

\* the waveform switch: table index i, waveform wave_tab, attenuation env
WaveOut(i, env, wave_tab) ==
    CASE wave_tab = 1 ->
            IF Bit(i, SIN_BITS - 1) = 1 THEN 0
            ELSE TlLookup(sin_tab[i + 1] + Shl(env, 4))
      [] wave_tab = 2 -> TlLookup(sin_tab[(i % (SIN_LEN \div 2)) + 1] + Shl(env, 4))
      [] wave_tab = 3 ->
            IF Bit(i, SIN_BITS - 2) = 1 THEN 0
            ELSE TlLookup(sin_tab[(i % (SIN_LEN \div 4)) + 1] + Shl(env, 4))
      [] OTHER -> TlLookup(sin_tab[i + 1] + Shl(env, 4))

\* ((signed)((phase & ~FREQ_MASK) + (pm << 16)) >> FREQ_SH) & SIN_MASK,
\* phase being << phase >> FREQ_SH, phase & FREQ_MASK >>
op_calc(phase, env, pm, wave_tab) ==
    WaveOut((phase[1] + pm) % SIN_LEN, env, wave_tab)

\* ((signed)((phase & ~FREQ_MASK) + pm) >> FREQ_SH) & SIN_MASK
op_calc1(phase, env, pm, wave_tab) ==
    WaveOut((phase[1] + (pm \div (2 ^ FREQ_SH))) % SIN_LEN, env, wave_tab)

volume_calc(OP, lfo_am) == OP.TLL + OP.volume + BitAnd(lfo_am, OP.AMmask)

\* *SLOT->connect1 += x
AddConnect1(M, connect1, x) ==
    CASE connect1 = "output" -> [M EXCEPT !.output = @ + x]
      [] connect1 = "phase_modulation" -> [M EXCEPT !.phase_modulation = @ + x]

\* A faulty operator 1 that keeps its last output when it is quiet
Op1FeedbackKeeps(SLOT, env) ==
    LET out == SLOT.op1_out[1] + SLOT.op1_out[2]
    IN  << SLOT.op1_out[2],
           IF env < ENV_QUIET
           THEN op_calc1(SLOT.Cnt, env, Shl(IF SLOT.FB = 0 THEN 0 ELSE out, SLOT.FB),
                         SLOT.wavetable)
           ELSE SLOT.op1_out[2] >>

\* operator 1 of a channel with its feedback: the new op1_out pair
Op1Feedback(SLOT, env) ==
    LET out == SLOT.op1_out[1] + SLOT.op1_out[2]
    IN  << SLOT.op1_out[2],
           IF env < ENV_QUIET
           THEN op_calc1(SLOT.Cnt, env, Shl(IF SLOT.FB = 0 THEN 0 ELSE out, SLOT.FB),
                         SLOT.wavetable)
           ELSE 0 >>

\* the output of an operator that is no operator 1 with feedback:
\* op_calc(phase, env, pm, wavetable) when env < ENV_QUIET, else nothing
SlotOutput(SLOT, lfo_am, phase, pm) ==
    Local([env \in {volume_calc(SLOT, lfo_am)} |->
        IF env < ENV_QUIET THEN op_calc(phase, env, pm, SLOT.wavetable) ELSE 0])

OPL_CALC_CH(M, c) ==
    LET S1 == M.OPL.P_CH[c].SLOT[SLOT1]
        S2 == M.OPL.P_CH[c].SLOT[SLOT2]
    IN  Local([M1 \in {AddConnect1([M EXCEPT !.phase_modulation = 0, !.lastChOutput = 0],
                         S1.connect1, S1.op1_out[2])} |->
        Local([last \in {SlotOutput(S2, M.LFO_AM, S2.Cnt, M1.phase_modulation)} |->
            [M1 EXCEPT !.OPL.P_CH[c].SLOT[SLOT1].op1_out =
                            Op1Feedback(S1, volume_calc(S1, M.LFO_AM)),
                       !.lastChOutput = last,
                       !.output = @ + last]])])

\* one rhythm voice: op_calc(phase << FREQ_SH, env, 0, wavetable) * 2 when audible
RhythmVoice(SLOT, lfo_am, phase) == SlotOutput(SLOT, lfo_am, << phase, 0 >>, 0) * 2

\* (bit2 ^ bit7) | bit3 of channel 7 operator 1's phase
Res1(cnt71) ==
    LET p == cnt71[1]
    IN  IF (Bit(p, 2) # Bit(p, 7)) \/ Bit(p, 3) = 1 THEN 1 ELSE 0

\* A faulty gate reading bit 4 for bit 5 of channel 8 operator 2's phase
Res2Bit4(cnt82) ==
    LET p == cnt82[1]
    IN  IF Bit(p, 3) # Bit(p, 4) THEN 1 ELSE 0

\* bit3 ^ bit5 of channel 8 operator 2's phase
Res2(cnt82) ==
    LET p == cnt82[1]
    IN  IF Bit(p, 3) # Bit(p, 5) THEN 1 ELSE 0

\* A faulty High-Hat phase that ignores the noise bit when the gate is open
HighHatPhaseNoNoise(cnt71, cnt82, noise) ==
    LET ph0 == IF Res1(cnt71) = 1 THEN 512 + 52 ELSE 208
        ph1 == IF Res2(cnt82) = 1 THEN 512 + 52 ELSE ph0
    IN  IF Bit(ph1, 9) = 1 THEN ph1
        ELSE (IF noise # 0 THEN 52 ELSE ph1)

HighHatPhase(cnt71, cnt82, noise) ==
    LET ph0 == IF Res1(cnt71) = 1 THEN 512 + 52 ELSE 208
        ph1 == IF Res2(cnt82) = 1 THEN 512 + 52 ELSE ph0
    IN  IF Bit(ph1, 9) = 1
        THEN (IF noise # 0 THEN 512 + 208 ELSE ph1)
        ELSE (IF noise # 0 THEN 52 ELSE ph1)

SnarePhase(cnt71, noise) ==
    LET ph == IF Bit(cnt71[1], 8) = 1 THEN 512 ELSE 256
    IN  IF noise # 0 THEN BitXor(ph, 256) ELSE ph

TopCymbalPhase(cnt71, cnt82) ==
    IF Res2(cnt82) = 1 THEN 768
    ELSE IF Res1(cnt71) = 1 THEN 768 ELSE 256

\* A faulty OPL_CALC_RH whose bass drum is not doubled
OPL_CALC_RH_single(M, noise) ==
    LET B1   == M.OPL.P_CH[6].SLOT[SLOT1]
        B2   == M.OPL.P_CH[6].SLOT[SLOT2]
        S7_1 == M.OPL.P_CH[7].SLOT[SLOT1]
        S7_2 == M.OPL.P_CH[7].SLOT[SLOT2]
        S8_1 == M.OPL.P_CH[8].SLOT[SLOT1]
        S8_2 == M.OPL.P_CH[8].SLOT[SLOT2]
        pm   == IF B1.CON = 0 THEN B1.op1_out[2] ELSE 0
    IN  Local([last \in {SlotOutput(B2, M.LFO_AM, B2.Cnt, pm)} |->
            [M EXCEPT
                !.OPL.P_CH[6].SLOT[SLOT1].op1_out =
                    Op1Feedback(B1, volume_calc(B1, M.LFO_AM)),
                !.phase_modulation = pm,
                !.lastChOutput = last,
                !.output = @ + last
                    \* high hat, snare drum, tom tom, top cymbal
                    + RhythmVoice(S7_1, M.LFO_AM, HighHatPhase(S7_1.Cnt, S8_2.Cnt, noise))
                    + RhythmVoice(S7_2, M.LFO_AM, SnarePhase(S7_1.Cnt, noise))
                    + SlotOutput(S8_1, M.LFO_AM, S8_1.Cnt, 0) * 2
                    + RhythmVoice(S8_2, M.LFO_AM, TopCymbalPhase(S7_1.Cnt, S8_2.Cnt))]])

OPL_CALC_RH(M, noise) ==
    LET B1   == M.OPL.P_CH[6].SLOT[SLOT1]
        B2   == M.OPL.P_CH[6].SLOT[SLOT2]
        S7_1 == M.OPL.P_CH[7].SLOT[SLOT1]
        S7_2 == M.OPL.P_CH[7].SLOT[SLOT2]
        S8_1 == M.OPL.P_CH[8].SLOT[SLOT1]
        S8_2 == M.OPL.P_CH[8].SLOT[SLOT2]
        pm   == IF B1.CON = 0 THEN B1.op1_out[2] ELSE 0
    IN  Local([last \in {SlotOutput(B2, M.LFO_AM, B2.Cnt, pm) * 2} |->
            [M EXCEPT
                !.OPL.P_CH[6].SLOT[SLOT1].op1_out =
                    Op1Feedback(B1, volume_calc(B1, M.LFO_AM)),
                !.phase_modulation = pm,
                !.lastChOutput = last,
                !.output = @ + last
                    \* high hat, snare drum, tom tom, top cymbal
                    + RhythmVoice(S7_1, M.LFO_AM, HighHatPhase(S7_1.Cnt, S8_2.Cnt, noise))
                    + RhythmVoice(S7_2, M.LFO_AM, SnarePhase(S7_1.Cnt, noise))
                    + SlotOutput(S8_1, M.LFO_AM, S8_1.Cnt, 0) * 2
                    + RhythmVoice(S8_2, M.LFO_AM, TopCymbalPhase(S7_1.Cnt, S8_2.Cnt))]])

-----------------------------------------------------------------------------
(* The sample loop                                                         *)

\* buf[i] = lt, OPLSAMPLE being a signed 16-bit sample
OPLSAMPLE(lt) == ((lt + 32768) % 65536) - 32768

RECURSIVE CalcChannels(_, _, _)
CalcChannels(M, c, last) ==
    IF c > last THEN M
    ELSE Local([M1 \in {OPL_CALC_CH(M, c)} |-> CalcChannels(M1, c + 1, last)])

\* A faulty loop body that advances the envelope, phase and noise clocks
\* before the sample is synthesized
UpdateSampleAdvanceFirst(M, rhythm) ==
    Local([M0 \in {advance(M)} |->
    Local([M1 \in {CalcChannels(advance_lfo([M0 EXCEPT !.output = 0]), 0, 5)} |->
    Local([M2 \in {IF rhythm = 0 THEN CalcChannels(M1, 6, 8)
                       ELSE OPL_CALC_RH(M1, M1.OPL.noise_rng % 2)} |->
        [M2 EXCEPT !.buf = Append(@, OPLSAMPLE(M2.output))]])])])

\* one iteration of the for loop of ym3812_update_one; rhythm is the flag
\* read before the loop
UpdateSample(M, rhythm) ==
    Local([M1 \in {CalcChannels(advance_lfo([M EXCEPT !.output = 0]), 0, 5)} |->
    Local([M2 \in {IF rhythm = 0 THEN CalcChannels(M1, 6, 8)
                       ELSE OPL_CALC_RH(M1, M1.OPL.noise_rng % 2)} |->
        advance([M2 EXCEPT !.buf = Append(@, OPLSAMPLE(M2.output))])])])

RECURSIVE UpdateLoop(_, _, _)
UpdateLoop(M, rhythm, n) ==
    IF n = 0 THEN M
    ELSE Local([M1 \in {UpdateSample(M, rhythm)} |-> UpdateLoop(M1, rhythm, n - 1)])

\* the states in which the n iterations of the for loop begin
RECURSIVE LoopStates(_, _, _)
LoopStates(M, rhythm, n) ==
    IF n = 0 THEN << >>
    ELSE << M >> \o LoopStates(UpdateSample(M, rhythm), rhythm, n - 1)

\* the states of an update of length samples in which the channels are
\* calculated: output[0] cleared and the LFO advanced
CalcStates(M, length) ==
    LET S == LoopStates(M, BitAnd(M.OPL.rhythm, 32), length)
    IN  { advance_lfo([S[i] EXCEPT !.output = 0]) : i \in 1..length }

\* the channels OPL_CALC_CH is called for
MelodicChannels(M) == IF BitAnd(M.OPL.rhythm, 32) = 0 THEN 0..8 ELSE 0..5

\* A faulty ym3812_update_one that never runs the rhythm mixer
ym3812_update_one_melodic(M, length) ==
    UpdateLoop([M EXCEPT !.buf = << >>], 0, length)

ym3812_update_one(M, length) ==
    UpdateLoop([M EXCEPT !.buf = << >>], BitAnd(M.OPL.rhythm, 32), length)

-----------------------------------------------------------------------------
(* Bus interface, timers                                                   *)

\* A faulty OPLWrite whose data port steps the address latch
OPLWriteIncrement(O, a, v) ==
    IF a % 2 = 0
    THEN [O EXCEPT !.address = v % 256]
    ELSE [OPLWriteReg(O, O.address, v) EXCEPT !.address = (@ + 1) % 256]

OPLWrite(O, a, v) ==
    IF a % 2 = 0
    THEN [O EXCEPT !.address = v % 256]
    ELSE OPLWriteReg(O, O.address, v)

\* the value returned by OPLWrite and OPLTimerOver
StatusBit(O) == Shr(O.status, 7)

\* A faulty OPLRead that returns the status register unmasked
OPLReadUnmasked(O, a) ==
    IF a % 2 = 0 THEN O.status ELSE 255

OPLRead(O, a) ==
    IF a % 2 = 0 THEN BitAnd(O.status, BitOr(O.statusmask, 128)) ELSE 255

ym3812_read(O, a) == BitOr(OPLRead(O, a), 6)

CSMKeyControll(CH) ==
    [CH EXCEPT !.SLOT[SLOT1] = FM_KEYOFF(FM_KEYON(@, 4), Not32(4)),
               !.SLOT[SLOT2] = FM_KEYOFF(FM_KEYON(@, 4), Not32(4))]

OPLTimerOver(O, c) ==
    IF c # 0
    THEN OPL_STATUS_SET(O, 32)
    ELSE Local([O1 \in {OPL_STATUS_SET(O, 64)} |->
            IF Bit(O1.mode, 7) = 1
            THEN [O1 EXCEPT !.P_CH = EachCH([ ch \in 0..8 |-> CSMKeyControll(O1.P_CH[ch]) ])]
            ELSE O1])
-----------------------------------------------------------------------------
(* The host interface as a state machine                                   *)

\* The chip and the statics of the synthesis, as one value
Machine ==
    [ OPL |-> OPL, LFO_AM |-> LFO_AM, LFO_PM |-> LFO_PM, output |-> output,
      phase_modulation |-> phase_modulation, lastChOutput |-> 0, buf |-> buf ]

\* ... with the record of the last call and of the key-ons since the reset
World == [ M |-> Machine, call |-> call, keyed |-> keyed ]

\* some operator of the chip has a key source set
AnyKey(O) == \E c \in 0..8, s \in 0..1 : O.P_CH[c].SLOT[s].key # 0

Call(name, a, v, ret) == [ name |-> name, a |-> a, v |-> v, ret |-> ret ]

\* ym3812_write(a, v)
DoWrite(W, a, v) ==
    Local([O \in {OPLWrite(W.M.OPL, a, v)} |->
        [W EXCEPT !.M.OPL = O,
                  !.call = Call("write", a, v, StatusBit(O)),
                  !.keyed = (W.keyed \/ AnyKey(O))]])

\* ym3812_read(a)
DoRead(W, a) == [W EXCEPT !.call = Call("read", a, 0, ym3812_read(W.M.OPL, a))]

\* ym3812_reset_chip()
DoReset(W) ==
    [W EXCEPT !.M.OPL = OPLResetChip(@), !.call = Call("reset", 0, 0, 0),
              !.keyed = FALSE]

\* OPLTimerOver(c); timer A in CSM mode keys every channel on and off
DoTimerOver(W, c) ==
    Local([O \in {OPLTimerOver(W.M.OPL, c)} |->
        [W EXCEPT !.M.OPL = O,
                  !.call = Call("timer", c, 0, StatusBit(O)),
                  !.keyed = (W.keyed \/ (c = 0 /\ Bit(W.M.OPL.mode, 7) = 1))]])

\* ym3812_update_one(buffer, length)
DoUpdate(W, length) ==
    [W EXCEPT !.M = ym3812_update_one(@, length),
              !.call = Call("update", length, 0, 0)]

\* the next state is W
Becomes(W) ==
    /\ OPL' = W.M.OPL
    /\ LFO_AM' = W.M.LFO_AM
    /\ LFO_PM' = W.M.LFO_PM
    /\ output' = W.M.output
    /\ phase_modulation' = W.M.phase_modulation
    /\ buf' = W.M.buf
    /\ call' = W.call
    /\ keyed' = W.keyed

Write(a, v) == Becomes(DoWrite(World, a, v))
Read(a) == Becomes(DoRead(World, a))
Reset == Becomes(DoReset(World))
TimerOver(c) == Becomes(DoTimerOver(World, c))
Update(length) == Becomes(DoUpdate(World, length))

-----------------------------------------------------------------------------
(* The host program                                                        *)

\* bounds of the exploration
MaxFree == 1
MaxLength == 4
MaxFreeLength == 2
MaxData == 2
DrumTail == 28
NoiseAhead == 23
NoiseSteps == 65536

\* one register write: the address on port 0, then the data on port 1
Reg(r, v) == << << "write", 0, r >>, << "write", 1, v >> >>
Gen(n) == << << "update", n, 0 >> >>

\* channel 0 keyed on with a fast attack on its first operator, three samples,
\* a reset, one more sample
TuneNote ==
    Reg(96, 240) \o Reg(160, 255) \o Reg(176, 63) \o Gen(2) \o Gen(1)
        \o << << "reset", 0, 0 >> >> \o Gen(1) \o << << "read", 0, 0 >> >>

\* the second operator of channel 0 through attack and decay into sustain,
\* its EG-type bit toggled there, then keyed off
TuneEnvelope ==
    Reg(99, 255) \o Reg(131, 15) \o Reg(35, 33) \o Reg(176, 42) \o Gen(4)
        \o Gen(4) \o Gen(3) \o Reg(35, 1) \o Gen(2) \o Reg(35, 33)
        \o Reg(176, 10) \o Gen(2)

\* channel 6 keyed by the rhythm section and by its note bit, the sources
\* dropped one by one; then CSM mode and a timer A overflow
TuneKeys ==
    Reg(128, 15) \o Reg(112, 240) \o Reg(189, 48) \o Reg(182, 32) \o Reg(189, 32) \o Gen(1)
        \o Reg(182, 0) \o Gen(1) \o Reg(189, 63) \o Gen(1) \o Reg(8, 128)
        \o << << "timer", 0, 0 >>, << "timer", 1, 0 >> >> \o Gen(1)

\* waveform select with the enable bit set and clear; block/f-number writes
\* around a change of the note-select bit
TuneSelect ==
    Reg(1, 32) \o Reg(224, 2) \o Reg(1, 0) \o Reg(224, 1) \o Reg(1, 32)
        \o Reg(227, 3) \o Reg(176, 2) \o Reg(8, 64) \o Reg(176, 2)
        \o Reg(160, 129) \o Reg(64, 192) \o Reg(176, 21) \o Reg(32, 18)

\* the bass drum channel with percussive operators in parallel connection,
\* keyed by its note bit: samples with the rhythm section off, on (parallel,
\* then serial) and off again, the total level of its first operator raised
\* to the maximum, samples until the envelopes have run out, and the key-off
\* that ends them
TuneDrum ==
    Reg(112, 255) \o Reg(115, 255) \o Reg(144, 15) \o Reg(147, 15) \o Reg(198, 3)
        \o Reg(166, 129) \o Reg(182, 62) \o Gen(2) \o Reg(189, 48) \o Gen(1)
        \o Reg(198, 2) \o Gen(1) \o Reg(189, 0) \o Gen(1) \o Reg(198, 3) \o Gen(1)
        \o Reg(80, 63) \o Gen(1)
        \o [ i \in 1..DrumTail |-> << "update", MaxLength, 0 >> ]
        \o Reg(182, 30) \o Gen(1)

\* channel c with both operators at the fastest attack and no attenuation,
\* in parallel connection, keyed at block 7
LoudVoice(c) ==
    Reg(96 + c + 5 * (c \div 3), 240) \o Reg(99 + c + 5 * (c \div 3), 240)
        \o Reg(192 + c, 1) \o Reg(176 + c, 63)

\* five channels sounding the same note in phase, and samples up to the
\* first crest of the wave; then a note on channel 8 whose attack (rate 14)
\* ends at the first of the two envelope ticks of one sample, the decay
\* (rate 15) taking the second; then the rhythm section with all of its
\* voices keyed at the fastest attack, the phase of channel 7 running; then
\* the highest frequency with vibrato on channel 5, the key-scale rate of
\* channel 0 unshifted, and both LFO depths; then
\* timer A overflows and both ports are read
TuneLoud ==
    LoudVoice(0) \o LoudVoice(1) \o LoudVoice(2) \o LoudVoice(3) \o LoudVoice(4)
        \o Gen(3) \o Gen(2)
        \o Reg(114, 239) \o Gen(2) \o Reg(184, 63) \o Gen(4) \o Gen(4) \o Gen(1)
        \o Reg(113, 240) \o Reg(116, 240) \o Reg(117, 240) \o Reg(183, 31)
        \o Reg(189, 63) \o Gen(4) \o Gen(4) \o Gen(3) \o Gen(1)
        \o Reg(165, 192) \o Reg(181, 31) \o Reg(42, 65) \o Reg(32, 17)
        \o Reg(189, 255) \o Gen(2)
        \o << << "timer", 0, 0 >>, << "read", 0, 0 >>, << "read", 1, 0 >> >>

Tunes == << TuneNote, TuneEnvelope, TuneKeys, TuneSelect, TuneDrum, TuneLoud >>

\* the places of each tune (the index of its next call) where the host may
\* make a call of its own: with an address latched, between samples, before
\* and after the reset
Breaks ==
    << { 2, 6, 8, 9, 10 }, { 8, 10, 13, 15, 19 }, { 6, 9, 16, 20, 22 },
       { 4, 8, 14, 18, 27 }, { 33 + DrumTail, 34 + DrumTail }, { 78, 79 } >>

\* values the host writes outside its tune: to the address port ...
Addresses == { 8, 35, 38, 131, 176, 182, 189, 227 }

\* ... and to the data port
Values == { 0, 2, 15, 16, 33, 63, 64, 128, 170, 241, 255 }

FreeCalls ==
    { << "write", 0, v >> : v \in Addresses } \cup { << "write", 1, v >> : v \in Values }
        \cup { << "read", a, 0 >> : a \in 0..1 } \cup { << "reset", 0, 0 >> }
        \cup { << "timer", c, 0 >> : c \in 0..1 }
        \cup { << "update", n, 0 >> : n \in 1..MaxFreeLength }

\* the host makes the next call of its tune, or one of its free calls
Host(c) ==
    \/ /\ host.pc <= Len(Tunes[host.tune])
       /\ Tunes[host.tune][host.pc] = c
       /\ host' = [host EXCEPT !.pc = @ + 1]
    \/ /\ host.free < MaxFree
       /\ host.pc \in Breaks[host.tune]
       /\ c \in FreeCalls
       /\ host' = [host EXCEPT !.free = @ + 1]

\* the call c, one of << name, a, v >>
Do(W, c) ==
    CASE c[1] = "write"  -> DoWrite(W, c[2], c[3])
      [] c[1] = "read"   -> DoRead(W, c[2])
      [] c[1] = "reset"  -> DoReset(W)
      [] c[1] = "timer"  -> DoTimerOver(W, c[2])
      [] c[1] = "update" -> DoUpdate(W, c[2])

\* the calls tune[i], ..., tune[j] in turn, the range being halved to keep
\* the evaluation shallow
RECURSIVE Play(_, _, _, _)
Play(W, tune, i, j) ==
    IF i > j THEN W
    ELSE IF i = j THEN Do(W, tune[i])
    ELSE Local([W1 \in {Play(W, tune, i, (i + j) \div 2)} |->
            Play(W1, tune, ((i + j) \div 2) + 1, j)])

\* the state ym3812_init leaves
Created ==
    [ M |-> [ OPL |-> ym3812_init, LFO_AM |-> 0, LFO_PM |-> 0, output |-> 0,
              phase_modulation |-> 0, lastChOutput |-> 0, buf |-> << >> ],
      call |-> Call("init", 0, 0, 0), keyed |-> FALSE ]

\* the present state is W
Is(W) ==
    /\ OPL = W.M.OPL
    /\ LFO_AM = W.M.LFO_AM
    /\ LFO_PM = W.M.LFO_PM
    /\ output = W.M.output
    /\ phase_modulation = W.M.phase_modulation
    /\ buf = W.M.buf
    /\ call = W.call
    /\ keyed = W.keyed

Init ==
    /\ Is(Created)
    /\ host \in { [ tune |-> t, pc |-> 1, free |-> 0 ] : t \in DOMAIN Tunes }

Next ==
    \/ \E a \in 0..1, v \in 0..255 : Host(<< "write", a, v >>) /\ Write(a, v)
    \/ \E a \in 0..1 : Host(<< "read", a, 0 >>) /\ Read(a)
    \/ Host(<< "reset", 0, 0 >>) /\ Reset
    \/ \E c \in 0..1 : Host(<< "timer", c, 0 >>) /\ TimerOver(c)
    \/ \E n \in 1..MaxLength : Host(<< "update", n, 0 >>) /\ Update(n)

Spec == Init /\ [][Next]_vars

-----------------------------------------------------------------------------
(* The register file, written from the states the tunes end in             *)

InitRegs ==
    \E t \in DOMAIN Tunes :
        /\ Is(Play(Created, Tunes[t], 1, Len(Tunes[t])))
        /\ host = [ tune |-> t, pc |-> Len(Tunes[t]) + 1, free |-> 0 ]

\* the host latches an address ...
WriteAddress(r) ==
    /\ host.free = 0
    /\ host' = [host EXCEPT !.free = 1]
    /\ Write(0, r)

\* ... and writes data to it
WriteData(v) ==
    /\ host.free \in 1..MaxData
    /\ host' = [host EXCEPT !.free = @ + 1]
    /\ Write(1, v)

NextRegs ==
    \/ \E r \in 0..255 : WriteAddress(r)
    \/ \E v \in Values \cup { call.v } : WriteData(v)

SpecRegs == InitRegs /\ [][NextRegs]_vars

-----------------------------------------------------------------------------
(* The noise shift register, stepped from the seed of the reset            *)

\* host.pc counts the shift steps made, host.free the steps since the output
\* bit (bit 0 of the register) last changed
InitNoise ==
    /\ Is(Created)
    /\ host = [ tune |-> 1, pc |-> 0, free |-> 0 ]

\* one turn of the while loop of advance
NoiseStep ==
    LET r == NoiseShift(OPL.noise_rng)
    IN  /\ host.pc < NoiseSteps
        /\ OPL' = [OPL EXCEPT !.noise_rng = r]
        /\ host' = [host EXCEPT !.pc = @ + 1,
                                !.free = IF r % 2 = OPL.noise_rng % 2 THEN @ + 1 ELSE 0]
        /\ UNCHANGED << LFO_AM, LFO_PM, output, phase_modulation, buf, call, keyed >>

NextNoise == NoiseStep

SpecNoise == InitNoise /\ [][NextNoise]_vars

-----------------------------------------------------------------------------
(* The operator output function, applied to inputs of every kind           *)

\* the attenuations passed to the function: audible ones, the quiet
\* threshold and its neighbours, the greatest envelope attenuation and one
\* above the greatest sum of total level, envelope and tremolo
QuietEnvs == { 0, ENV_QUIET - 1, ENV_QUIET, ENV_QUIET + 1, MAX_ATT_INDEX, 1240 }

\* the modulation inputs of op_calc (an operator output, or a sum of two) ...
QuietMods == { -8168, 0, 4084 }

\* ... and of op_calc1 (the feedback, shifted by FB)
QuietFeedbacks == { -1045504, 0, 65535, 522752 }

\* host.tune is the waveform, host.pc the phase (phase >> FREQ_SH) and
\* host.free the attenuation
InitQuiet ==
    /\ Is(Created)
    /\ host \in { [ tune |-> w, pc |-> ph, free |-> env ] :
                     w \in 0..3, ph \in 0..SIN_MASK, env \in QuietEnvs }

\* output[0] = op_calc(phase, env, phase_modulation, wave_tab)
CalcOp(pm) ==
    /\ call.name = "init"
    /\ phase_modulation' = pm
    /\ output' = op_calc(<< host.pc, 0 >>, host.free, pm, host.tune)
    /\ call' = Call("op_calc", 0, 0, 0)
    /\ UNCHANGED << OPL, LFO_AM, LFO_PM, buf, keyed, host >>

\* output[0] = op_calc1(phase, env, out << FB, wave_tab)
CalcOp1(fb) ==
    /\ call.name = "init"
    /\ phase_modulation' = fb
    /\ output' = op_calc1(<< host.pc, 0 >>, host.free, fb, host.tune)
    /\ call' = Call("op_calc1", 0, 0, 0)
    /\ UNCHANGED << OPL, LFO_AM, LFO_PM, buf, keyed, host >>

NextQuiet ==
    \/ \E pm \in QuietMods : CalcOp(pm)
    \/ \E fb \in QuietFeedbacks : CalcOp1(fb)

SpecQuiet == InitQuiet /\ [][NextQuiet]_vars

-----------------------------------------------------------------------------
(* One voice, keyed and left to the sample clock                           *)

\* the samples after which the host keys the released voices off
EnvKeyOff == 8

\* the samples the host generates for the slowest attack
SlowSamples == 62700

\* the samples the host generates for the other voices
MaxSamples == 1900

\* the voices: the bytes for 0x60 (attack/decay), 0x80 (sustain/release) and
\* 0xB0 (key, block, f-number), whether the host keys the voice off, and
\* the samples the host generates.  Attack rates 2, 8 and 15 without
\* key-off; release rates 15 and 12 from attenuation 0 and release rate 1
\* from attenuation 511 (attack rate 0) with key-off.
EnvVoices ==
    << [ ar_dr |-> 32,  sl_rr |-> 0,  b0 |-> 32, off |-> FALSE, samples |-> SlowSamples ],
       [ ar_dr |-> 128, sl_rr |-> 0,  b0 |-> 32, off |-> FALSE, samples |-> MaxSamples ],
       [ ar_dr |-> 244, sl_rr |-> 37, b0 |-> 32, off |-> FALSE, samples |-> MaxSamples ],
       [ ar_dr |-> 240, sl_rr |-> 15, b0 |-> 32, off |-> TRUE,  samples |-> MaxSamples ],
       [ ar_dr |-> 240, sl_rr |-> 12, b0 |-> 32, off |-> TRUE,  samples |-> MaxSamples ],
       [ ar_dr |-> 0,   sl_rr |-> 1,  b0 |-> 32, off |-> TRUE,  samples |-> MaxSamples ] >>

\* the voice t written to channel 0, the address latch left on 0xB0
EnvTune(t) ==
    Reg(96, EnvVoices[t].ar_dr) \o Reg(128, EnvVoices[t].sl_rr) \o Reg(176, EnvVoices[t].b0)

InitEnv ==
    \E t \in DOMAIN EnvVoices :
        /\ Is(Play(Created, EnvTune(t), 1, Len(EnvTune(t))))
        /\ host = [ tune |-> t, pc |-> 0, free |-> 0 ]

\* the host's sample clock: one more sample is due
SampleClock ==
    /\ host.pc < EnvVoices[host.tune].samples
    /\ ~(EnvVoices[host.tune].off /\ host.pc = EnvKeyOff /\ host.free = 0)
    /\ host' = [host EXCEPT !.pc = @ + 1]

\* the host generates one more sample
Sample ==
    /\ SampleClock
    /\ Update(1)

\* the host clears the key bit of 0xB0
KeyOff ==
    /\ EnvVoices[host.tune].off
    /\ host.pc = EnvKeyOff
    /\ host.free = 0
    /\ host' = [host EXCEPT !.free = 1]
    /\ Write(1, EnvVoices[host.tune].b0 - 32)

NextEnv == Sample \/ KeyOff

\* the host keeps generating samples: the clock is never held back for ever
SpecEnv == InitEnv /\ [][NextEnv]_vars /\ WF_host(SampleClock)

-----------------------------------------------------------------------------
(* Properties                                                              *)

Operators == (0..8) \X (0..1)
Operator(O, x) == O.P_CH[x[1]].SLOT[x[2]]

\* C1: every operator's attenuation (volume) is within [0, 511] in every
\* state reachable from ym3812_init by register writes, timer overflows,
\* resets and generated samples.
C1_VolumeInRange ==
    \A x \in Operators :
        Operator(OPL, x).volume \in MIN_ATT_INDEX..MAX_ATT_INDEX

\* samples were generated and an operator is part way through its attack
C1_Witness ==
    /\ call.name = "update"
    /\ \E x \in Operators :
          /\ Operator(OPL, x).state = EG_ATT
          /\ Operator(OPL, x).volume \in 1..(MAX_ATT_INDEX - 1)

\* C2: immediately after a reset, from any reachable state, each of the 18
\* operators is OFF with attenuation 511 and an empty key mask.
C2_ResetSilencesOperators ==
    call.name = "reset" =>
        \A x \in Operators :
            /\ Operator(OPL, x).state = EG_OFF
            /\ Operator(OPL, x).volume = MAX_ATT_INDEX
            /\ Operator(OPL, x).key = 0

\* a reset of a chip whose first operator of channel 0 had sounded: its
\* output history is still there
C2_Witness ==
    /\ call.name = "reset"
    /\ Operator(OPL, << 0, 0 >>).op1_out # << 0, 0 >>

\* C3: after a reset, from any reachable state, every generated sample is
\* zero as long as no key-on (note, rhythm or CSM) was issued since the reset.
C3_SilentUntilKeyOn ==
    (call.name = "update" /\ ~keyed) => \A i \in 1..Len(buf) : buf[i] = 0

\* the bit of register 0xBD that keys operator x of the rhythm section
C4_RhythmBit(x) ==
    CASE x[1] = 6 -> 4
      [] x = << 7, 0 >> -> 0
      [] x = << 7, 1 >> -> 3
      [] x = << 8, 0 >> -> 2
      [] x = << 8, 1 >> -> 1

\* the key mask of operator x, k before, once v is written to register r:
\* the note source is bit 5 of 0xB0 + channel, the rhythm source the
\* operator's bit of 0xBD under the rhythm enable
C4_MaskAfter(x, k, r, v) ==
    IF r = 176 + x[1]
    THEN (IF Bit(v, 5) = 1 THEN 1 ELSE 0) + 2 * Bit(k, 1) + 4 * Bit(k, 2)
    ELSE IF r = 189 /\ x[1] \in 6..8
    THEN Bit(k, 0) + 4 * Bit(k, 2)
            + (IF Bit(v, 5) = 1 /\ Bit(v, C4_RhythmBit(x)) = 1 THEN 2 ELSE 0)
    ELSE k

\* C4: an operator's key mask is the OR of its note (1), rhythm (2) and CSM
\* (4) sources; a key-off moves the operator to RELEASE exactly when the mask
\* becomes zero by it, and while another source stays set the envelope state
\* is left as it is.
C4_KeyMask ==
    [][ call'.name \in { "write", "timer" } =>
          \A x \in Operators :
              LET S == Operator(OPL, x)
                  T == Operator(OPL', x)
              IN  /\ T.key = IF call'.name = "write" /\ call'.a = 1
                             THEN C4_MaskAfter(x, S.key, OPL.address, call'.v)
                             ELSE S.key
                  /\ (S.key # 0 /\ T.key = 0) => T.state = EG_REL
                  /\ (S.key # 0 /\ T.key # 0) => T.state = S.state
                  /\ (T.state = EG_REL /\ S.state # EG_REL) =>
                        (T.key = 0 /\ (S.key # 0 \/ call'.name = "timer")) ]_vars

\* channel 6 was keyed by the rhythm section and by its note bit, and the
\* rhythm key has just been dropped: the note source is left, the attack
\* goes on
C4_Witness ==
    /\ host = [ tune |-> 3, pc |-> 11, free |-> 0 ]
    /\ call = Call("write", 1, 32, 0)
    /\ OPL.address = 189
    /\ Operator(OPL, << 6, 0 >>).key = 1
    /\ Operator(OPL, << 6, 0 >>).state = EG_ATT

\* C5: a write to a waveform-select register (0xE0-0xF5) sets the addressed
\* operator's waveform to value & 3 exactly when wave select is enabled at
\* the time of the write; while disabled it changes no operator's waveform,
\* and no other register write, that of the enable register included,
\* changes a waveform.
C5_WaveSelect ==
    [][ (call'.name = "write" /\ call'.a = 1) =>
          \A x \in Operators :
              LET r == OPL.address
                  addressed == /\ r \in 224..245
                               /\ slot_array[(r % 32) + 1] = 2 * x[1] + x[2]
              IN  Operator(OPL', x).wavetable =
                      IF addressed /\ OPL.wavesel # 0
                      THEN call'.v % 4
                      ELSE Operator(OPL, x).wavetable ]_vars

\* with wave select enabled, 0x21 was written to register 0xE0 and the first
\* operator of channel 0 has waveform 1
C5_Witness ==
    /\ call = Call("write", 1, 33, 0)
    /\ OPL.address = 224
    /\ OPL.wavesel # 0
    /\ Operator(OPL, << 0, 0 >>).wavetable = 1

\* C6: a write to a multiplier/EG-type register (0x20 block), whatever its
\* EG-type bit, leaves an operator that is in SUSTAIN in SUSTAIN, and no
\* later envelope clock advance moves it out of SUSTAIN.
C6_SustainHolds ==
    [][ \A x \in Operators :
          ( /\ Operator(OPL, x).state = EG_SUS
            /\ \/ call'.name = "write" /\ call'.a = 1 /\ OPL.address \in 32..63
               \/ call'.name = "update" )
          => Operator(OPL', x).state = EG_SUS ]_vars

\* the second operator of channel 0 reached SUSTAIN, its EG-type bit was
\* cleared there and two samples were generated
C6_Witness ==
    /\ host = [ tune |-> 2, pc |-> 15, free |-> 0 ]
    /\ call.name = "update"
    /\ Operator(OPL, << 0, 1 >>).state = EG_SUS
    /\ Operator(OPL, << 0, 1 >>).eg_type = 0

\* C7: writing the same value to the same address twice in a row, with no
\* sample generated in between, leaves the whole chip state after the second
\* write as it was after the first.
C7_RepeatedWrite ==
    [][ ( /\ call.name = "write" /\ call.a = 1
          /\ call'.name = "write" /\ call'.a = 1 /\ call'.v = call.v )
        => /\ OPL' = OPL
           /\ UNCHANGED << LFO_AM, LFO_PM, output, phase_modulation, buf >> ]_vars

\* 0xBD was written twice to register 0xBD (rhythm enabled, bass drum, snare,
\* tom and hi-hat keyed): the bass drum is keyed by the rhythm source
C7_Witness ==
    /\ host.free = 3
    /\ call = Call("write", 1, 189, 0)
    /\ OPL.address = 189
    /\ Bit(Operator(OPL, << 6, 0 >>).key, 1) = 1

\* C8: a write on the address port changes the latched address and nothing
\* else; a write on the data port applies the value to the register at the
\* latched address and leaves the latch; either returns bit 7 of the status.
C8_Ports ==
    [][ call'.name = "write" =>
          /\ call'.ret = Bit(OPL'.status, 7)
          /\ UNCHANGED << LFO_AM, LFO_PM, output, phase_modulation, buf >>
          /\ IF call'.a = 0
             THEN OPL' = [OPL EXCEPT !.address = call'.v]
             ELSE /\ OPL'.address = OPL.address
                  /\ OPL' = OPLWriteReg(OPL, OPL.address, call'.v) ]_vars

\* 0xBD was latched on a chip both of whose timers have overflowed
C8_Witness ==
    /\ call = Call("write", 0, 189, 0)
    /\ OPL.address = 189
    /\ OPL.status = 96

\* C9: a data write to an operator-block address (0x20-0x9F, 0xE0-0xFF) whose
\* 5-bit offset maps to no operator in slot_array leaves the whole chip state
\* as it is.
C9_NoOperator ==
    [][ ( /\ call'.name = "write" /\ call'.a = 1
          /\ OPL.address \in (32..159) \cup (224..255)
          /\ slot_array[(OPL.address % 32) + 1] < 0 )
        => /\ OPL' = OPL
           /\ UNCHANGED << LFO_AM, LFO_PM, output, phase_modulation, buf >> ]_vars

\* 0xFF was written to 0x86, an address of the sustain/release block with no
\* operator
C9_Witness ==
    /\ call = Call("write", 1, 255, 0)
    /\ OPL.address = 134
    /\ slot_array[(134 % 32) + 1] < 0

\* the derived values of channel CH agree with its block_fnum
C10_Derived(CH) ==
    LET block == Shr(CH.block_fnum, 10)
    IN  /\ CH.ksl_base = ksl_tab[Shr(CH.block_fnum, 6) + 1]
        /\ CH.fc = Shr(fn_tab1[(CH.block_fnum % 1024) + 1], 7 - block)
        /\ \A s \in 0..1 :
              /\ CH.SLOT[s].TLL = CH.SLOT[s].TL + Shr(CH.ksl_base, CH.SLOT[s].ksl)
              /\ CH.SLOT[s].Incr = CH.fc * CH.SLOT[s].mul

\* the key code of channel CH is (block << 1) | f, f the f-number bit the
\* note-select bit of the mode register chooses
C10_KeyCode(CH, mode) ==
    CH.kcode = 2 * Shr(CH.block_fnum, 10)
                 + (IF Bit(mode, 6) = 1 THEN Bit(CH.block_fnum, 8)
                                       ELSE Bit(CH.block_fnum, 9))

\* C10: after any data write to a channel's frequency/block register
\* (0xA0-0xA8, 0xB0-0xB8) the channel's key code is (block << 1) | f, f chosen
\* by the note-select bit as it is at that write, and its key-scale-level
\* base, frequency counter and both operators' total level and phase
\* increment correspond to the block/f-number now held.
C10_BlockFnum ==
    ( /\ call.name = "write" /\ call.a = 1
      /\ OPL.address \in (160..168) \cup (176..184) )
    => /\ C10_KeyCode(OPL.P_CH[OPL.address % 16], OPL.mode)
       /\ C10_Derived(OPL.P_CH[OPL.address % 16])

\* C11: in every reachable state each operator's derived values agree with
\* its registers: ksr = kcode >> KSR, TLL = TL + (ksl_base >> ksl),
\* Incr = fc * mul, and the attack, decay and release (shift, selector)
\* pairs are the rate-table entries at rate + ksr, the attack pair being
\* (0, row 13) from rate + ksr = 78 on.
C11_DerivedAgree ==
    \A x \in Operators :
        LET CH   == OPL.P_CH[x[1]]
            SLOT == Operator(OPL, x)
        IN  /\ SLOT.ksr = Shr(CH.kcode, SLOT.KSR)
            /\ SLOT.TLL = SLOT.TL + Shr(CH.ksl_base, SLOT.ksl)
            /\ SLOT.Incr = CH.fc * SLOT.mul
            /\ IF SLOT.ar + SLOT.ksr >= 78
               THEN SLOT.eg_sh_ar = 0 /\ SLOT.eg_sel_ar = 13 * RATE_STEPS
               ELSE /\ SLOT.eg_sh_ar = eg_rate_shift[SLOT.ar + SLOT.ksr + 1]
                    /\ SLOT.eg_sel_ar = eg_rate_select[SLOT.ar + SLOT.ksr + 1]
            /\ SLOT.eg_sh_dr = eg_rate_shift[SLOT.dr + SLOT.ksr + 1]
            /\ SLOT.eg_sel_dr = eg_rate_select[SLOT.dr + SLOT.ksr + 1]
            /\ SLOT.eg_sh_rr = eg_rate_shift[SLOT.rr + SLOT.ksr + 1]
            /\ SLOT.eg_sel_rr = eg_rate_select[SLOT.rr + SLOT.ksr + 1]

\* a data write left an operator with a non-zero key scale rate whose attack
\* rate is past the end of the attack table
C11_Witness ==
    /\ call.name = "write" /\ call.a = 1
    /\ \E x \in Operators :
          /\ Operator(OPL, x).ksr > 0
          /\ Operator(OPL, x).ar + Operator(OPL, x).ksr >= 78
          /\ Operator(OPL, x).TLL > Operator(OPL, x).TL

\* n iterations of the sample loop, each of which takes the choice between
\* the melodic channels 6-8 and the rhythm mixer from the flag as it is when
\* that sample is generated
RECURSIVE C12_LiveFlag(_, _)
C12_LiveFlag(M, n) ==
    IF n = 0 THEN M
    ELSE Local([M1 \in {UpdateSample(M, BitAnd(M.OPL.rhythm, 32))} |->
            C12_LiveFlag(M1, n - 1)])

\* C12: every generated sample is synthesized with channels 6-8 melodic or
\* with the rhythm mixer according to the rhythm-enable flag at the moment
\* the sample is generated, so a change of the flag acts on the next sample.
C12_RhythmFlagLive ==
    [][call'.name = "update" =>
          Machine' = [C12_LiveFlag([Machine EXCEPT !.buf = << >>], call'.a)
                          EXCEPT !.lastChOutput = 0]]_vars

\* the first sample after the write that set the rhythm enable bit between
\* two samples of the sounding bass drum channel
C12_Witness ==
    /\ call.name = "update"
    /\ host = [ tune |-> 5, pc |-> 19, free |-> 0 ]
    /\ BitAnd(OPL.rhythm, 32) # 0
    /\ Len(buf) = 1 /\ buf[1] # 0

\* what OPL_CALC_CH adds for channel c to the output accumulator
C13_ChannelAdds(M, c) == OPL_CALC_CH([M EXCEPT !.output = 0], c).output

\* what operator 2 of channel c adds when operator 1 adds nothing: its
\* output, modulated by the bus as OPL_CALC_CH leaves it
C13_Op2Alone(M, c) ==
    LET S2 == M.OPL.P_CH[c].SLOT[SLOT2]
    IN  SlotOutput(S2, M.LFO_AM, S2.Cnt, OPL_CALC_CH(M, c).phase_modulation)

\* the output operator 1 of channel c calculated at the sample before, if
\* it is connected to the output accumulator
C13_Op1Delayed(M, c) ==
    LET S1 == M.OPL.P_CH[c].SLOT[SLOT1]
    IN  IF S1.connect1 = "output" THEN S1.op1_out[2] ELSE 0

\* C13 as stated: at every generated sample an operator whose attenuation
\* (TLL + envelope + enabled tremolo) is ENV_QUIET or more adds zero to the
\* output accumulator; operator 1 quiet, a channel adds what operator 2
\* adds, and operator 2 quiet, what operator 1 adds.
C13_QuietAddsZero ==
    [][call'.name = "update" =>
        \A M \in CalcStates(Machine, call'.a) : \A c \in MelodicChannels(M) :
            LET S1 == M.OPL.P_CH[c].SLOT[SLOT1]
                S2 == M.OPL.P_CH[c].SLOT[SLOT2]
            IN  /\ volume_calc(S1, M.LFO_AM) >= ENV_QUIET =>
                      C13_ChannelAdds(M, c) = C13_Op2Alone(M, c)
                /\ volume_calc(S2, M.LFO_AM) >= ENV_QUIET =>
                      C13_ChannelAdds(M, c) = C13_Op1Delayed(M, c)]_vars

\* C13 as it holds: at every generated sample a quiet operator 2 adds zero
\* to the output accumulator; a quiet operator 1 calculates an output of
\* zero for that sample, and what operator 1 adds to the accumulator at a
\* sample is the output it calculated at the sample before, whatever its
\* attenuation is now.
C13_QuietCalculatesZero ==
    [][call'.name = "update" =>
        \A M \in CalcStates(Machine, call'.a) : \A c \in MelodicChannels(M) :
            LET S1 == M.OPL.P_CH[c].SLOT[SLOT1]
                S2 == M.OPL.P_CH[c].SLOT[SLOT2]
            IN  /\ volume_calc(S2, M.LFO_AM) >= ENV_QUIET =>
                      C13_ChannelAdds(M, c) = C13_Op1Delayed(M, c)
                /\ volume_calc(S1, M.LFO_AM) >= ENV_QUIET =>
                      /\ OPL_CALC_CH(M, c).OPL.P_CH[c].SLOT[SLOT1].op1_out
                            = << S1.op1_out[2], 0 >>
                      /\ C13_ChannelAdds(M, c)
                            = C13_Op1Delayed(M, c) + C13_Op2Alone(M, c)]_vars

\* the sample generated after the total level of the sounding first operator
\* of channel 6, connected in parallel, was raised to the maximum: the
\* operator is quiet and its last output is in the sample
C13_Witness ==
    /\ call.name = "update"
    /\ host = [ tune |-> 5, pc |-> 31, free |-> 0 ]
    /\ Operator(OPL, << 6, 0 >>).TLL >= ENV_QUIET
    /\ Operator(OPL, << 6, 0 >>).connect1 = "output"
    /\ Operator(OPL, << 6, 0 >>).op1_out[1] # 0
    /\ Operator(OPL, << 6, 0 >>).op1_out[2] = 0
    /\ buf[1] # 0

\* C14: at every generated sample, in every reachable state, the output
\* operator 1 of a channel passes on goes to the modulation bus exactly when
\* the channel's connection bit is 0 and to the output accumulator exactly
\* when it is 1; operator 2 is modulated by the bus, zero when the bit is 1.
C14_ConnectionBit ==
    [][call'.name = "update" =>
        \A M \in CalcStates(Machine, call'.a) : \A c \in MelodicChannels(M) :
            LET S1 == M.OPL.P_CH[c].SLOT[SLOT1]
                S2 == M.OPL.P_CH[c].SLOT[SLOT2]
                R  == OPL_CALC_CH(M, c)
            IN  /\ R.phase_modulation = (IF S1.CON = 0 THEN S1.op1_out[2] ELSE 0)
                /\ R.output - M.output =
                      (IF S1.CON = 1 THEN S1.op1_out[2] ELSE 0)
                          + SlotOutput(S2, M.LFO_AM, S2.Cnt, R.phase_modulation)]_vars


\* C15 as stated: with rhythm mode on and the bass drum keyed, channel 6
\* adds to every sample twice what OPL_CALC_CH would add for it from the
\* same state, whatever its connection and feedback bits are.
C15_BassDrumTwice ==
    [][(call'.name = "update" /\ BitAnd(OPL.rhythm, 32) # 0 /\ Bit(OPL.rhythm, 4) = 1) =>
        \A M \in CalcStates(Machine, call'.a) :
            OPL_CALC_RH(M, M.OPL.noise_rng % 2).lastChOutput
                = 2 * C13_ChannelAdds(M, 6)]_vars

\* C15 as it holds: with rhythm mode on and the bass drum keyed, channel 6
\* adds to every sample twice the output of its operator 2, modulated by
\* operator 1's last output when the connection bit is 0 and unmodulated
\* when it is 1; operator 1's own output is never added, its feedback
\* history moves as in a melodic channel. That is twice what OPL_CALC_CH
\* adds when operator 1 is connected to the modulation bus.
C15_BassDrumOperator2 ==
    [][(call'.name = "update" /\ BitAnd(OPL.rhythm, 32) # 0 /\ Bit(OPL.rhythm, 4) = 1) =>
        \A M \in CalcStates(Machine, call'.a) :
            LET B1 == M.OPL.P_CH[6].SLOT[SLOT1]
                B2 == M.OPL.P_CH[6].SLOT[SLOT2]
                R  == OPL_CALC_RH(M, M.OPL.noise_rng % 2)
            IN  /\ R.lastChOutput =
                      2 * SlotOutput(B2, M.LFO_AM, B2.Cnt,
                                     IF B1.CON = 0 THEN B1.op1_out[2] ELSE 0)
                /\ R.OPL.P_CH[6].SLOT[SLOT1].op1_out
                      = OPL_CALC_CH(M, 6).OPL.P_CH[6].SLOT[SLOT1].op1_out
                /\ B1.connect1 = "phase_modulation" =>
                      R.lastChOutput = 2 * C13_ChannelAdds(M, 6)]_vars

\* a sample of the keyed bass drum in serial connection with feedback, both
\* operators sounding
C15_Witness ==
    /\ call.name = "update"
    /\ host = [ tune |-> 5, pc |-> 22, free |-> 0 ]
    /\ BitAnd(OPL.rhythm, 32) # 0 /\ Bit(OPL.rhythm, 4) = 1
    /\ Operator(OPL, << 6, 0 >>).CON = 0
    /\ Operator(OPL, << 6, 0 >>).connect1 = "phase_modulation"
    /\ Operator(OPL, << 6, 0 >>).FB # 0
    /\ Operator(OPL, << 6, 0 >>).op1_out[1] # 0
    /\ Operator(OPL, << 6, 0 >>).op1_out[2] # 0
    /\ buf[1] # 0

\* C16: a data write to register 0xBD leaves the rhythm key bit (2) of each
\* rhythm operator set exactly when the rhythm enable bit (5) and the data
\* bit of the operator's voice (BD 4: both operators of channel 6, HH 0: 7/1,
\* SD 3: 7/2, TOM 2: 8/1, TOP 1: 8/2) are set, so with the enable bit clear
\* all five are cleared; the note key bit (and the CSM bit) of every operator
\* and channels 0-5 as a whole are as before.
C16_RhythmKeys ==
    [][(call'.name = "write" /\ call'.a = 1 /\ OPL.address = 189) =>
        /\ \A x \in Operators :
              LET S == Operator(OPL, x)
                  T == Operator(OPL', x)
              IN  /\ Bit(T.key, 0) = Bit(S.key, 0)
                  /\ Bit(T.key, 2) = Bit(S.key, 2)
                  /\ x[1] \in 6..8 =>
                        (Bit(T.key, 1) = 1 <=>
                            (Bit(call'.v, 5) = 1 /\ Bit(call'.v, C4_RhythmBit(x)) = 1))
        /\ \A c \in 0..5 : OPL'.P_CH[c] = OPL.P_CH[c]]_vars

\* 0x21 written to 0xBD after all five voices were keyed: the high hat keeps
\* its rhythm key, the other four voices have lost theirs, the note key of
\* channel 6 is as it was
C16_Witness ==
    /\ call = Call("write", 1, 33, 0)
    /\ OPL.address = 189
    /\ host = [ tune |-> 3, pc |-> Len(TuneKeys) + 1, free |-> 2 ]
    /\ Operator(OPL, << 7, 0 >>).key = 2
    /\ \A x \in { << 6, 0 >>, << 6, 1 >>, << 7, 1 >>, << 8, 0 >>, << 8, 1 >> } :
          Bit(Operator(OPL, x).key, 1) = 0

\* values of the envelope counter: for every shift of the rate table (0..12)
\* a value at which an operator of that shift is clocked, at each of the
\* eight places of the increment pattern
C17_EgCounts == { (2 ^ sh) * j : sh \in 0..12, j \in 1..8 }

\* the operator is in ATTACK, DECAY or RELEASE and the rate of that state is
\* the register value zero
C17_RateZero(op) ==
    \/ op.state = EG_ATT /\ op.ar = 0
    \/ op.state = EG_DEC /\ op.dr = 0
    \/ op.state = EG_REL /\ op.rr = 0

\* C17: an envelope tick, at whatever value of the envelope counter, leaves
\* the attenuation of an operator in ATTACK, DECAY or RELEASE whose rate
\* register is zero as it is, for every key scale rate; and so does an
\* update through which the operator stays in that state.
C17_ZeroRateHolds ==
    /\ [](\A x \in Operators : \A cnt \in C17_EgCounts :
            C17_RateZero(Operator(OPL, x)) =>
                EnvelopeStep(Operator(OPL, x), cnt).volume = Operator(OPL, x).volume)
    /\ [][call'.name = "update" =>
            \A x \in Operators :
                (C17_RateZero(Operator(OPL, x))
                    /\ Operator(OPL', x).state = Operator(OPL, x).state) =>
                        Operator(OPL', x).volume = Operator(OPL, x).volume]_vars

\* samples were generated while a keyed operator with a key scale rate above
\* zero stood in ATTACK with attack rate zero
C17_Witness ==
    /\ call.name = "update"
    /\ \E x \in Operators :
          /\ Operator(OPL, x).state = EG_ATT
          /\ Operator(OPL, x).ar = 0
          /\ Operator(OPL, x).ksr > 0
          /\ Operator(OPL, x).key # 0
          /\ Operator(OPL, x).volume > MIN_ATT_INDEX

\* C18: an envelope tick, at whatever value of the envelope counter, changes
\* an operator's state only from ATTACK to DECAY with the attenuation at 0,
\* from DECAY to SUSTAIN with the attenuation at or above the sustain level,
\* or from RELEASE to OFF with the attenuation at 511; an update never moves
\* an operator out of SUSTAIN or OFF, and moves it only along ATTACK, DECAY,
\* SUSTAIN or from RELEASE to OFF at 511.
C18_Transitions ==
    /\ [](\A x \in Operators : \A cnt \in C17_EgCounts :
            LET op == Operator(OPL, x)
                n  == EnvelopeStep(op, cnt)
            IN  n.state # op.state =>
                    \/ op.state = EG_ATT /\ n.state = EG_DEC /\ n.volume = MIN_ATT_INDEX
                    \/ op.state = EG_DEC /\ n.state = EG_SUS /\ n.volume >= op.sl
                    \/ op.state = EG_REL /\ n.state = EG_OFF /\ n.volume = MAX_ATT_INDEX)
    /\ [][call'.name = "update" =>
            \A x \in Operators :
                LET op == Operator(OPL, x)
                    n  == Operator(OPL', x)
                IN  n.state # op.state =>
                        \/ op.state = EG_ATT /\ n.state = EG_DEC
                        \/ op.state \in { EG_ATT, EG_DEC } /\ n.state = EG_SUS
                                /\ n.volume >= op.sl
                        \/ op.state = EG_REL /\ n.state = EG_OFF
                                /\ n.volume = MAX_ATT_INDEX]_vars

\* an update has clocked a keyed operator out of ATTACK: it is in DECAY with
\* attenuation 0 and the next tick takes it on to SUSTAIN
C18_Witness ==
    /\ call.name = "update"
    /\ \E x \in Operators :
          /\ Operator(OPL, x).state = EG_DEC
          /\ Operator(OPL, x).volume = MIN_ATT_INDEX
          /\ Operator(OPL, x).key # 0
          /\ EnvelopeStep(Operator(OPL, x), OPL.eg_cnt + 1).state = EG_SUS

\* C19: an envelope tick, at whatever value of the envelope counter, leaves
\* an operator in SUSTAIN in SUSTAIN; its attenuation is unchanged when the
\* EG-type bit is set, and when the bit is clear the increment of the release
\* rate is added at the ticks that clock that rate, the sum cut off at 511;
\* an update does the same over its ticks, also from attenuation 511.
C19_Sustain ==
    /\ [](\A x \in Operators : \A cnt \in C17_EgCounts :
            LET op == Operator(OPL, x)
                n  == EnvelopeStep(op, cnt)
                up == op.volume + EgInc(op.eg_sel_rr, op.eg_sh_rr, cnt)
            IN  op.state = EG_SUS =>
                    /\ n.state = EG_SUS
                    /\ n.volume =
                          IF op.eg_type = 0 /\ EgFires(op.eg_sh_rr, cnt)
                          THEN (IF up >= MAX_ATT_INDEX THEN MAX_ATT_INDEX ELSE up)
                          ELSE op.volume)
    /\ [][call'.name = "update" =>
            \A x \in Operators :
                LET op == Operator(OPL, x)
                    n  == Operator(OPL', x)
                IN  op.state = EG_SUS =>
                        /\ n.state = EG_SUS
                        /\ op.eg_type # 0 => n.volume = op.volume
                        /\ op.eg_type = 0 => n.volume \in op.volume..MAX_ATT_INDEX
                        /\ op.volume = MAX_ATT_INDEX => n.volume = MAX_ATT_INDEX]_vars

\* the last update of TuneDrum before channel 6 is keyed off: the percussive
\* second operator of channel 6, still keyed, was at 511 in SUSTAIN before
\* it and is so after it
C19_Witness ==
    /\ call.name = "update"
    /\ host = [ tune |-> 5, pc |-> Len(TuneDrum) - 2, free |-> 0 ]
    /\ Operator(OPL, << 6, 1 >>).state = EG_SUS
    /\ Operator(OPL, << 6, 1 >>).eg_type = 0
    /\ Operator(OPL, << 6, 1 >>).rr # 0
    /\ Operator(OPL, << 6, 1 >>).key # 0
    /\ Operator(OPL, << 6, 1 >>).volume = MAX_ATT_INDEX

\* the LFO counter cnt after n additions of inc
RECURSIVE C20_Advanced(_, _, _)
C20_Advanced(cnt, inc, n) ==
    IF n = 0 THEN cnt ELSE C20_Advanced(Add32(cnt, inc, LFO_SH), inc, n - 1)

\* the sample synthesized in the state M of a loop iteration: the LFO
\* advanced once, then the channels and the rhythm mixer, no envelope, phase
\* or noise clock advanced
C20_Synthesized(M) ==
    LET M1 == CalcChannels(advance_lfo([M EXCEPT !.output = 0]), 0, 5)
        M2 == IF BitAnd(M.OPL.rhythm, 32) = 0 THEN CalcChannels(M1, 6, 8)
              ELSE OPL_CALC_RH(M1, M1.OPL.noise_rng % 2)
    IN  OPLSAMPLE(M2.output)

\* C20: an update of n samples stores n samples, advances the LFO n times
\* and the envelope, phase and noise clocks n times; the i-th sample is
\* synthesized after the i-th LFO advance from the state the first i - 1
\* iterations left, before the i-th clock advance.
C20_SampleOrder ==
    [][call'.name = "update" =>
        LET n == call'.a
            S == LoopStates([Machine EXCEPT !.buf = << >>], BitAnd(OPL.rhythm, 32), n)
        IN  /\ Len(buf') = n
            /\ \A i \in 1..n : buf'[i] = C20_Synthesized(S[i])
            /\ OPL'.lfo_pm_cnt = C20_Advanced(OPL.lfo_pm_cnt, OPL.lfo_pm_inc, n)
            /\ OPL'.eg_timer + OPL.eg_timer_overflow * (OPL'.eg_cnt - OPL.eg_cnt)
                  = OPL.eg_timer + n * OPL.eg_timer_add
            /\ OPL'.noise_p + (FREQ_MASK + 1) * ((n * OPL.noise_f + OPL.noise_p) \div (FREQ_MASK + 1))
                  = OPL.noise_p + n * OPL.noise_f]_vars

\* an update of MaxLength samples of the sounding channel 6 whose envelopes
\* move: the samples differ from one another
C20_Witness ==
    /\ call = Call("update", MaxLength, 0, 0)
    /\ host.tune = 5
    /\ Len(buf) = MaxLength
    /\ \A i \in 1..MaxLength : buf[i] # 0
    /\ \A i \in 2..MaxLength : buf[i] # buf[i - 1]
    /\ Operator(OPL, << 6, 1 >>).state = EG_SUS
    /\ Operator(OPL, << 6, 1 >>).eg_type = 0

-----------------------------------------------------------------------------
\* the sum of the channel and rhythm contributions of the sample that is
\* synthesized in the state M of a loop iteration: the accumulator output[0]
\* as it is when the sample is stored
C21_Sum(M) ==
    LET M1 == CalcChannels(advance_lfo([M EXCEPT !.output = 0]), 0, 5)
        M2 == IF BitAnd(M.OPL.rhythm, 32) = 0 THEN CalcChannels(M1, 6, 8)
              ELSE OPL_CALC_RH(M1, M1.OPL.noise_rng % 2)
    IN  M2.output

\* C21: every sample an update stores equals the sum of the channel and
\* rhythm contributions of that sample and lies in -32768..32767: the store
\* does not wrap around.
C21_StoredSum ==
    [][call'.name = "update" =>
        LET S == LoopStates([Machine EXCEPT !.buf = << >>], BitAnd(OPL.rhythm, 32),
                            call'.a)
        IN  \A i \in 1..call'.a :
                /\ C21_Sum(S[i]) \in -32768..32767
                /\ buf'[i] = C21_Sum(S[i])]_vars

-----------------------------------------------------------------------------
\* the status register masked by the IRQ mask, bit 7 included
C22_Masked(O) == BitAnd(O.status, BitOr(O.statusmask, 128))

\* C22 as stated: a read on the status port returns the status register
\* masked by (IRQ mask | 0x80), and a read on the data port returns 0xFF.
C22_ReadMasked ==
    call.name = "read" =>
        call.ret = IF call.a % 2 = 0 THEN C22_Masked(OPL) ELSE 255

\* C22: a read on the status port returns the status register masked by
\* (IRQ mask | 0x80) with the bits 1 and 2 set in addition, and a read on
\* the data port returns 0xFF.
C22_ReadPorts ==
    call.name = "read" =>
        call.ret = IF call.a % 2 = 0 THEN BitOr(C22_Masked(OPL), 6) ELSE 255

\* a read on the status port while a timer flag is set that the mask hides
C22_Witness ==
    /\ call.name = "read" /\ call.a = 0
    /\ BitAnd(OPL.status, 64) # 0
    /\ C22_Masked(OPL) = 0
    /\ call.ret = 6

-----------------------------------------------------------------------------
\* the register rng is not zero and fits in 23 bits, now and after each of
\* the next k shift steps
RECURSIVE C23_Stays(_, _)
C23_Stays(rng, k) ==
    /\ rng \in 1..((2 ^ 23) - 1)
    /\ \/ k = 0
       \/ Local([r \in {NoiseShift(rng)} |-> C23_Stays(r, k - 1)])

\* C23: the noise shift register, seeded with 1 by the reset, is never zero
\* and fits in 23 bits after any number of generated samples, and stays so
\* under any number (up to NoiseAhead) of further shift steps.
C23_NoiseNonZero == C23_Stays(OPL.noise_rng, NoiseAhead)

\* samples have been generated since the reset, the feedback has acted (bit
\* 22 is set) and the output bit is 0
C23_Witness ==
    /\ call.name = "update"
    /\ OPL.noise_rng # 1
    /\ Bit(OPL.noise_rng, 22) = 1
    /\ OPL.noise_rng % 2 = 0

-----------------------------------------------------------------------------
\* C24: from the seed 1, within the first NoiseSteps (2^16) shift steps the
\* noise register is never in a state that the shift step maps to itself,
\* and its output bit (bit 0) never stays the same for NoiseAhead (23) steps in a
\* row: it becomes neither constantly 0 nor constantly 1.
C24_NoFixedPoint ==
    /\ NoiseShift(OPL.noise_rng) # OPL.noise_rng
    /\ host.free < NoiseAhead

\* all the shift steps have been made, and the output bit has shown runs
\* of zeros and of ones on the way
C24_Witness ==
    /\ host.pc = NoiseSteps
    /\ OPL.noise_rng \notin { 0, 1 }
    /\ host.free < host.pc

-----------------------------------------------------------------------------
\* C25: after a reset the chip generates what a newly created chip
\* generates: an update that follows a reset stores the samples the same
\* update stores on a newly created chip, whatever was written and generated
\* before the reset.
C25_ResetAsNew ==
    [][(call.name = "reset" /\ call'.name = "update") =>
          buf' = ym3812_update_one(Created.M, call'.a).buf]_vars

-----------------------------------------------------------------------------
\* the operator-block offset i addresses no operator of the chip O: no value
\* written to the level register 0x40 + i changes the chip
C26_NoOperator(O, i) == \A v \in { 0, 63 } : OPLWriteReg(O, 64 + i, v) = O

\* the offsets (0..31) that address no operator
C26_Gaps(O) == { i \in 0..31 : C26_NoOperator(O, i) }

\* C26 as stated: the slot table maps exactly 6 of the 32 offsets to "no
\* such operator" and the remaining offsets to operators.
C26_SixGaps ==
    Local([G \in {C26_Gaps(OPL)} |->
        /\ Cardinality(G) = 6
        /\ \A i \in (0..31) \ G : slot_array[i + 1] \in 0..17])

\* C26: the slot table maps exactly 14 of the 32 offsets to "no such
\* operator": the 6 gaps 6, 7, 14, 15, 22, 23 among the offsets 0..23 and
\* all of the offsets 24..31; the remaining 18 offsets are mapped one to one
\* to the 18 operators.  The offset latched with the address is one of the
\* 14 exactly if no write to its level register changes the chip.
C26_SlotTable ==
    LET G == { 6, 7, 14, 15, 22, 23 } \cup (24..31)
    IN  /\ C26_NoOperator(OPL, OPL.address % 32) <=> (OPL.address % 32) \in G
        /\ G = { i \in 0..31 : slot_array[i + 1] < 0 }
        /\ Cardinality(G) = 14
        /\ { slot_array[i + 1] : i \in (0..31) \ G } = 0..17

\* a data write to an operator register whose offset is one of 24..31
C26_Witness ==
    /\ call.name = "write" /\ call.a = 1
    /\ OPL.address \in 32..159
    /\ OPL.address % 32 >= 24
    /\ C26_NoOperator(OPL, OPL.address % 32)

-----------------------------------------------------------------------------
\* one turn of the while loop of advance: one envelope tick of every operator
C27_Tick(O) ==
    [O EXCEPT !.eg_timer = O.eg_timer - O.eg_timer_overflow,
              !.eg_cnt = O.eg_cnt + 1,
              !.P_CH = EachCH([ c \in 0..8 |-> [O.P_CH[c] EXCEPT
                  !.SLOT = EachSLOT([ s \in 0..1 |->
                      EnvelopeStep(O.P_CH[c].SLOT[s], O.eg_cnt + 1) ])] ])]

\* the chip before, between and after the envelope ticks of one advance
RECURSIVE C27_Ticks(_)
C27_Ticks(O) ==
    IF O.eg_timer >= O.eg_timer_overflow
    THEN Local([O1 \in {C27_Tick(O)} |-> << O >> \o C27_Ticks(O1)])
    ELSE << O >>

\* from the chip O to the chip N the attenuation of no operator that is in
\* ATTACK in O and in the states att in N increases, and the attenuation of
\* no operator that is in DECAY, SUSTAIN or RELEASE in O decreases
C27_Monotone(O, N, att) ==
    \A x \in Operators :
        LET op == Operator(O, x)
            nx == Operator(N, x)
        IN  /\ (op.state = EG_ATT /\ nx.state \in att) => nx.volume <= op.volume
            /\ op.state \in { EG_DEC, EG_SUS, EG_REL } =>
                  (nx.volume >= op.volume /\ nx.state # EG_ATT)

\* the envelope generator of the chip O
C27_Envelope(O) ==
    << O.eg_cnt, O.eg_timer,
       [ x \in Operators |-> << Operator(O, x).state, Operator(O, x).volume >> ] >>

\* the n advances of an update from the chip O end with the envelope
\* generator of the chip F, and each of them is monotone from tick to tick
\* and from sample to sample
RECURSIVE C27_Advances(_, _, _)
C27_Advances(O, n, F) ==
    IF n = 0 THEN C27_Envelope(O) = C27_Envelope(F)
    ELSE Local([T \in {C27_Ticks([O EXCEPT !.eg_timer = @ + O.eg_timer_add])} |->
            /\ Len(T) >= 2
            /\ \A j \in 1..(Len(T) - 1) :
                  C27_Monotone(T[j], T[j + 1], { EG_ATT, EG_DEC, EG_SUS, EG_REL, EG_OFF })
            /\ C27_Monotone(O, T[Len(T)], { EG_ATT })
            /\ C27_Advances(T[Len(T)], n - 1, F)])

\* C27: between consecutive samples with no intervening register write
\* (the advances of an update), an operator's attenuation never increases
\* while it is in ATTACK and never decreases while it is in DECAY, SUSTAIN or
\* RELEASE: not at any envelope tick of the advance, and not from one sample
\* to the next for an operator that is in ATTACK at both or in DECAY,
\* SUSTAIN or RELEASE at the first.
C27_MonotoneEnvelope ==
    [][call'.name = "update" => C27_Advances(OPL, call'.a, OPL')]_vars

\* from the sample generated with the chip O to the next one, generated
\* with the chip N, the attenuation of no operator that is in ATTACK in O
\* increases and that of no operator in DECAY, SUSTAIN or RELEASE decreases
C27_BySample(O, N) ==
    \A x \in Operators :
        LET op == Operator(O, x)
            nx == Operator(N, x)
        IN  /\ op.state = EG_ATT => nx.volume <= op.volume
            /\ op.state \in { EG_DEC, EG_SUS, EG_REL } => nx.volume >= op.volume

\* the envelope generator of the chip O after n advances
RECURSIVE C27_After(_, _)
C27_After(O, n) ==
    IF n = 0 THEN O
    ELSE Local([O1 \in {EnvelopeTicks([O EXCEPT !.eg_timer = @ + O.eg_timer_add])} |->
            C27_After(O1, n - 1)])

\* C27 as stated: between consecutive samples with no intervening register
\* write, an operator's attenuation never increases while it is in ATTACK
\* and never decreases while it is in DECAY, SUSTAIN or RELEASE, the state
\* being the one the operator is in at the first of the two samples.
C27_MonotoneBySample ==
    [][call'.name = "update" =>
          \A i \in 1..call'.a : C27_BySample(C27_After(OPL, i - 1), C27_After(OPL, i))]_vars

\* an update of one sample whose advance made two envelope ticks: an
\* operator in ATTACK at attenuation 2 reached 0 and DECAY at the first, and
\* the decay took it to 4 and to SUSTAIN at the second
C27_Witness ==
    /\ call = Call("update", 1, 0, 0)
    /\ host.tune = 6
    /\ Operator(OPL, << 8, 0 >>).state = EG_SUS
    /\ Operator(OPL, << 8, 0 >>).volume = 4
    /\ OPL.eg_cnt = 18

-----------------------------------------------------------------------------
\* C28: an operator in ATTACK with attack rate zero, in DECAY with decay rate
\* zero or in RELEASE with release rate zero stays in that state through
\* each of the envelope clock advances of an update, whatever its
\* attenuation (0 in ATTACK and at or above the sustain level in DECAY
\* included).
C28_ZeroRateStays ==
    [][call'.name = "update" =>
          \A i \in 1..call'.a : \A x \in Operators :
              C17_RateZero(Operator(C27_After(OPL, i - 1), x)) =>
                  Operator(C27_After(OPL, i), x).state
                      = Operator(C27_After(OPL, i - 1), x).state]_vars

-----------------------------------------------------------------------------
\* C29: for every phase, modulation input and waveform, op_calc and op_calc1
\* return 0 whenever the attenuation passed to them is at or above the
\* quiet threshold ENV_QUIET, so skipping a quiet operator changes nothing.
C29_QuietIsZero ==
    (call.name \in { "op_calc", "op_calc1" } /\ host.free >= ENV_QUIET) => output = 0

\* op_calc at the crest of the sine (where the table adds no attenuation)
\* with the attenuation just at the threshold
C29_Witness ==
    /\ call.name = "op_calc"
    /\ host = [ tune |-> 0, pc |-> SIN_LEN \div 4, free |-> ENV_QUIET ]
    /\ phase_modulation = 0
    /\ sin_tab[host.pc + 1] = 0
    /\ output = 0

-----------------------------------------------------------------------------
\* what the High-Hat, the Snare, the Tom-Tom and the Top-Cymbal add to the
\* output accumulator at the sample calculated in the state M
C30_Voices(M) ==
    Local([R \in {OPL_CALC_RH([M EXCEPT !.output = 0], M.OPL.noise_rng % 2)} |->
        R.output - R.lastChOutput])

\* the state M with the phase accumulator of channel 7 operator 1 reduced to
\* its bits 2, 3, 7 and 8, that of channel 8 operator 2 reduced to its bits
\* 3 and 5, and that of channel 8 operator 1 set to tom
C30_FixedBits(M, tom) ==
    [M EXCEPT !.OPL.P_CH[7].SLOT[SLOT1].Cnt = << BitAnd(@[1], 396), 0 >>,
              !.OPL.P_CH[8].SLOT[SLOT2].Cnt = << BitAnd(@[1], 40), 0 >>,
              !.OPL.P_CH[8].SLOT[SLOT1].Cnt = tom]

\* C30 as stated: in rhythm mode the phase of each of High-Hat, Snare,
\* Tom-Tom and Top-Cymbal is a function only of fixed bits of the phase
\* accumulators of channel 7 operator 1 and channel 8 operator 2 and of the
\* noise bit: what the four voices add does not change when every other bit
\* of the phase accumulators of the channels 7 and 8 is cleared.
C30_PhaseFromFixedBits ==
    [][(call'.name = "update" /\ BitAnd(OPL.rhythm, 32) # 0) =>
        \A M \in CalcStates(Machine, call'.a) :
            C30_Voices(M) = C30_Voices(C30_FixedBits(M, << 0, 0 >>))]_vars

\* the gate (bit2 ^ bit7) | bit3 of a phase p of channel 7 operator 1, or
\* bit3 ^ bit5 of a phase e of channel 8 operator 2
C30_Gate(p, e) ==
    \/ Bit(p, 2) # Bit(p, 7)
    \/ Bit(p, 3) = 1
    \/ Bit(e, 3) # Bit(e, 5)

\* the truth tables of the phases: High-Hat, Snare and Top-Cymbal for the
\* phase p of channel 7 operator 1, the phase e of channel 8 operator 2
\* and the noise bit
C30_HighHat(p, e, noise) ==
    IF C30_Gate(p, e) THEN (IF noise = 1 THEN 720 ELSE 564)
    ELSE (IF noise = 1 THEN 52 ELSE 208)

C30_Snare(p, noise) ==
    CASE Bit(p, 8) = 1 /\ noise = 0 -> 512
      [] Bit(p, 8) = 1 /\ noise = 1 -> 768
      [] Bit(p, 8) = 0 /\ noise = 0 -> 256
      [] Bit(p, 8) = 0 /\ noise = 1 -> 0

C30_TopCymbal(p, e) == IF C30_Gate(p, e) THEN 768 ELSE 256

\* the output of the operator SLOT at the phase << phase, 0 >>, unmodulated,
\* with its own attenuation, scaled by 2
C30_Voice(M, SLOT, phase) ==
    Local([env \in {volume_calc(SLOT, M.LFO_AM)} |->
        IF env < ENV_QUIET THEN 2 * op_calc(phase, env, 0, SLOT.wavetable) ELSE 0])

\* C30: in rhythm mode the phases of High-Hat, Snare and Top-Cymbal are
\* given by the truth tables over fixed bits of the phase accumulators of
\* channel 7 operator 1 (bits 2, 3, 7; bit 8 for the Snare) and channel 8
\* operator 2 (bits 3, 5) and, for High-Hat and Snare, the noise bit; the
\* Tom-Tom runs at the phase accumulator of its own operator, channel 8
\* operator 1; each voice takes its attenuation and waveform from its own
\* operator (HH 7/op1, SD 7/op2, TOM 8/op1, TOP 8/op2) and is scaled by 2.
C30_RhythmVoices ==
    [][(call'.name = "update" /\ BitAnd(OPL.rhythm, 32) # 0) =>
        \A M \in CalcStates(Machine, call'.a) :
            LET p == M.OPL.P_CH[7].SLOT[SLOT1].Cnt[1]
                e == M.OPL.P_CH[8].SLOT[SLOT2].Cnt[1]
                n == M.OPL.noise_rng % 2
            IN  /\ C30_Voices(M) =
                      C30_Voice(M, M.OPL.P_CH[7].SLOT[SLOT1], << C30_HighHat(p, e, n), 0 >>)
                      + C30_Voice(M, M.OPL.P_CH[7].SLOT[SLOT2], << C30_Snare(p, n), 0 >>)
                      + C30_Voice(M, M.OPL.P_CH[8].SLOT[SLOT1], M.OPL.P_CH[8].SLOT[SLOT1].Cnt)
                      + C30_Voice(M, M.OPL.P_CH[8].SLOT[SLOT2], << C30_TopCymbal(p, e), 0 >>)
                /\ C30_Voices(M)
                      = C30_Voices(C30_FixedBits(M, M.OPL.P_CH[8].SLOT[SLOT1].Cnt))]_vars

\* a rhythm-mode update has calculated samples in which all four voices are
\* audible, the Tom-Tom at a running phase of its own operator and the
\* phase of channel 7 operator 1 beyond its fixed bits
C30_Witness ==
    /\ call.name = "update"
    /\ BitAnd(OPL.rhythm, 32) # 0
    /\ \A c \in {7, 8} : \A s \in {SLOT1, SLOT2} :
          volume_calc(OPL.P_CH[c].SLOT[s], LFO_AM) < ENV_QUIET
    /\ OPL.P_CH[8].SLOT[SLOT1].Cnt[1] # 0
    /\ BitAnd(OPL.P_CH[7].SLOT[SLOT1].Cnt[1], 396) # OPL.P_CH[7].SLOT[SLOT1].Cnt[1]

-----------------------------------------------------------------------------
\* the High-Hat phase for the gate g and the noise bit n
C31_Phase(g, n) ==
    CASE ~g /\ n = 0 -> 208
      [] ~g /\ n = 1 -> 52
      [] g /\ n = 0 -> 564
      [] g /\ n = 1 -> 720

\* C31: at every sample of a rhythm-mode update the High-Hat phase is one
\* of four values, chosen by the gate g = ((bit2 xor bit7) or bit3 of the
\* phase of channel 7 operator 1) or (bit3 xor bit5 of the phase of channel
\* 8 operator 2) and by the noise bit n: 0x0D0 for g=0,n=0; 0x034 for
\* g=0,n=1; 0x234 for g=1,n=0; 0x2D0 for g=1,n=1; and the High-Hat is the
\* output of channel 7 operator 1 at that phase.
C31_HighHatPhase ==
    [][(call'.name = "update" /\ BitAnd(OPL.rhythm, 32) # 0) =>
        \A M \in CalcStates(Machine, call'.a) :
            LET S7_1 == M.OPL.P_CH[7].SLOT[SLOT1]
                S8_2 == M.OPL.P_CH[8].SLOT[SLOT2]
                g == C30_Gate(S7_1.Cnt[1], S8_2.Cnt[1])
            IN  \A n \in 0..1 :
                  /\ HighHatPhase(S7_1.Cnt, S8_2.Cnt, n) = C31_Phase(g, n)
                  /\ OPL_CALC_RH([M EXCEPT !.output = 0], n).output
                       - OPL_CALC_RH([M EXCEPT !.output = 0,
                            !.OPL.P_CH[7].SLOT[SLOT1].volume = MAX_ATT_INDEX], n).output
                     = C30_Voice(M, S7_1, << C31_Phase(g, n), 0 >>)
                       - C30_Voice(M, [S7_1 EXCEPT !.volume = MAX_ATT_INDEX],
                                   << C31_Phase(g, n), 0 >>)]_vars

\* a rhythm-mode update has ended with the High-Hat audible and the gate
\* closed, the gate having been open on the way: the phases of both halves
\* of the table are calculated
C31_Witness ==
    /\ call.name = "update"
    /\ BitAnd(OPL.rhythm, 32) # 0
    /\ volume_calc(OPL.P_CH[7].SLOT[SLOT1], LFO_AM) < ENV_QUIET
    /\ ~C30_Gate(OPL.P_CH[7].SLOT[SLOT1].Cnt[1], OPL.P_CH[8].SLOT[SLOT2].Cnt[1])
    /\ OPL.P_CH[7].SLOT[SLOT1].Cnt[1] > 0
    /\ HighHatPhase(OPL.P_CH[7].SLOT[SLOT1].Cnt, OPL.P_CH[8].SLOT[SLOT2].Cnt,
                    OPL.noise_rng % 2) \in {208, 52}

-----------------------------------------------------------------------------
\* the index into the 1024-step period that the calculation in the current
\* state used: the phase plus the modulation input (op_calc) or plus the
\* feedback input scaled down by 2^16 (op_calc1)
C32_Index ==
    IF call.name = "op_calc" THEN (host.pc + phase_modulation) % 1024
    ELSE (host.pc + (phase_modulation \div 65536)) % 1024

\* the value of the base table at the index j under the attenuation env:
\* the logarithmic sine plus 16 * env, through the power table, signed
C32_Base(j, env) ==
    LET p == sin_tab[j + 1] + 16 * env
        a == tl_tab[((p \div 2) % 256) + 1] \div (2 ^ (p \div 512))
    IN  IF p >= 3072 THEN 0 ELSE IF p % 2 = 1 THEN -a ELSE a

\* C32: waveform 0 is the base table at the index unchanged; waveform 1 is
\* 0 for the indices of the second half of the period and the base value
\* otherwise; waveform 2 is the base table at the index modulo 512;
\* waveform 3 is 0 when bit 8 of the index is set and otherwise the base
\* table at the index modulo 256; waveforms 1, 2 and 3 are never negative.
C32_Waveforms ==
    call.name \in { "op_calc", "op_calc1" } =>
        LET i == C32_Index
            env == host.free
        IN  /\ host.tune = 0 => output = C32_Base(i, env)
            /\ host.tune = 1 => output = IF i >= 512 THEN 0 ELSE C32_Base(i, env)
            /\ host.tune = 2 => output = C32_Base(i % 512, env)
            /\ host.tune = 3 =>
                  output = IF (i \div 256) % 2 = 1 THEN 0 ELSE C32_Base(i % 256, env)
            /\ host.tune \in 1..3 => output >= 0

\* waveform 2 in the second half of the period, where the base table is
\* negative, calculated as a positive value after a modulation input has
\* moved the index
C32_Witness ==
    /\ call.name = "op_calc"
    /\ host.tune = 2
    /\ phase_modulation # 0
    /\ C32_Index >= 512
    /\ C32_Base(C32_Index, host.free) < 0
    /\ output > 0

-----------------------------------------------------------------------------
\* the vibrato row of a channel: (block_fnum & 0x0380) >> 7
C33_FnumLfo(CH) == (CH.block_fnum \div 128) % 8

\* the indices into the tables that the chip state O with the vibrato
\* column lfo_pm holds or will use at the next sample are inside them
C33_Indices(O, lfo_pm) ==
    /\ O.lfo_am_cnt[1] < 210
    /\ \A c \in 0..8 :
          /\ lfo_pm + 16 * C33_FnumLfo(O.P_CH[c]) < 128
          /\ BitOr(7, O.lfo_pm_depth_range) + 16 * C33_FnumLfo(O.P_CH[c]) < 128
          /\ O.P_CH[c].block_fnum \div 64 < 128
          /\ \A s \in {SLOT1, SLOT2} :
                LET op == O.P_CH[c].SLOT[s]
                IN  /\ op.ar + op.ksr < 96
                    /\ op.dr + op.ksr < 96
                    /\ op.rr + op.ksr < 96
                    /\ \A step \in 0..7 :
                          /\ op.eg_sel_ar + step < 120
                          /\ op.eg_sel_dr + step < 120
                          /\ op.eg_sel_rr + step < 120

\* from every tremolo index inside the table, with the fraction the counter
\* has now, one LFO advance leaves the index inside the table
C33_TremoloWraps ==
    \A i \in 0..209 :
        advance_lfo([Machine EXCEPT !.OPL.lfo_am_cnt = << i, OPL.lfo_am_cnt[2] >>])
            .OPL.lfo_am_cnt[1] < 210

\* C33: every table index is inside its table in every state, those
\* between the samples of an update included: the tremolo index is below
\* 210 after each LFO advance, the vibrato index below 128, the rate-table
\* index (rate + ksr) below 96, the increment-pattern index (selector +
\* step) below 120 and the key-scale-level index below 128; and the LFO
\* advance keeps the tremolo index inside the table from every index.
C33_TableIndices ==
    [][/\ C33_Indices(OPL, LFO_PM)
       /\ C33_TremoloWraps
       /\ C33_Indices(OPL', LFO_PM')
       /\ call'.name = "update" =>
             \A M \in CalcStates(Machine, call'.a) : C33_Indices(M.OPL, M.LFO_PM)]_vars

\* samples have been generated with the indices at the ends of their
\* tables: vibrato at full depth on the highest frequency (row 7, column
\* 8 and above), the key-scale level of the highest block_fnum (127), the
\* fastest attack on an unshifted key code 15 (76 + 15), the last row of
\* the increment patterns (selector 112), and the tremolo counter running
C33_Witness ==
    /\ call.name = "update"
    /\ LFO_PM >= 8
    /\ OPL.P_CH[5].SLOT[SLOT1].vib # 0
    /\ LFO_PM + 16 * C33_FnumLfo(OPL.P_CH[5]) >= 120
    /\ OPL.P_CH[5].block_fnum \div 64 = 127
    /\ OPL.P_CH[0].SLOT[SLOT1].ar + OPL.P_CH[0].SLOT[SLOT1].ksr = 91
    /\ \E c \in 0..8 : OPL.P_CH[c].SLOT[SLOT1].eg_sel_dr = 112
    /\ OPL.lfo_am_cnt[2] > 0
    /\ OPL.lfo_am_depth # 0

-----------------------------------------------------------------------------
\* in the chip O the key mask of every operator is non-zero exactly when
\* the operator is in ATTACK, DECAY or SUSTAIN
C34_Keyed(O) ==
    \A x \in Operators :
        Operator(O, x).key # 0 <=> Operator(O, x).state \in { EG_ATT, EG_DEC, EG_SUS }

\* C34: in every state, those between the samples of an update included,
\* an operator's key mask is non-zero if and only if its envelope state is
\* ATTACK, DECAY or SUSTAIN (the mask is zero iff the state is RELEASE or
\* OFF), whatever note, rhythm and CSM key events, resets and updates came
\* before.
C34_KeyMaskAndState ==
    [][/\ C34_Keyed(OPL)
       /\ C34_Keyed(OPL')
       /\ call'.name = "update" =>
             \A i \in 1..call'.a : C34_Keyed(C27_After(OPL, i))]_vars

\* timer A has overflowed in CSM mode: operators without another key
\* source were keyed on and off at once (phase restarted, RELEASE, mask 0)
\* while a voice keyed by the rhythm section keeps its mask and its state
C34_Witness ==
    /\ call.name = "timer"
    /\ Bit(OPL.mode, 7) = 1
    /\ \E x \in Operators :
          /\ Operator(OPL, x).key = 0
          /\ Operator(OPL, x).state = EG_REL
          /\ Operator(OPL, x).Cnt = << 0, 0 >>
    /\ \E x \in Operators :
          /\ Operator(OPL, x).key = 2
          /\ Operator(OPL, x).state \in { EG_ATT, EG_DEC, EG_SUS }

-----------------------------------------------------------------------------
\* in the chip O every operator in the envelope state OFF has attenuation 511
C35_Off(O) ==
    \A x \in Operators :
        Operator(O, x).state = EG_OFF => Operator(O, x).volume = 511

\* C35: in every state after ym3812_init, those between the samples of an
\* update included, an operator in the envelope state OFF has attenuation
\* 511.
C35_OffIsSilent ==
    [][/\ C35_Off(OPL)
       /\ C35_Off(OPL')
       /\ call'.name = "update" =>
             \A i \in 1..call'.a : C35_Off(C27_After(OPL, i))]_vars

\* the bass drum, run out to 511 in SUSTAIN and then keyed off, has been
\* clocked from RELEASE to OFF by an update, no reset having been made
C35_Witness ==
    /\ call.name = "update"
    /\ host = [ tune |-> 5, pc |-> Len(TuneDrum) + 1, free |-> 0 ]
    /\ \A s \in { SLOT1, SLOT2 } :
          /\ OPL.P_CH[6].SLOT[s].state = EG_OFF
          /\ OPL.P_CH[6].SLOT[s].volume = 511
          /\ OPL.P_CH[6].SLOT[s].key = 0
          /\ OPL.P_CH[6].SLOT[s].rr # 0

-----------------------------------------------------------------------------
\* C36: a register write changes no operator's attenuation; it changes an
\* envelope state only by a key-on, to ATTACK, the key mask having been
\* zero and the phase restarting at 0, or by a key-off, to RELEASE, the key
\* mask becoming zero; so an operator keyed on from a zero mask is in
\* ATTACK at the attenuation it had.
C36_WritesKeepAttenuation ==
    [][call'.name = "write" =>
        \A x \in Operators :
            LET S == Operator(OPL, x)
                T == Operator(OPL', x)
            IN  /\ T.volume = S.volume
                /\ T.state # S.state =>
                      \/ /\ T.state = EG_ATT
                         /\ S.key = 0 /\ T.key # 0
                         /\ T.Cnt = << 0, 0 >>
                      \/ /\ T.state = EG_REL
                         /\ S.key # 0 /\ T.key = 0
                /\ (S.key = 0 /\ T.key # 0) =>
                      (T.state = EG_ATT /\ T.Cnt = << 0, 0 >>)
                /\ (S.key # 0 /\ T.key # 0) => (T.state = S.state /\ T.Cnt = S.Cnt)]_vars

\* a note was keyed off and on again by two writes to its 0xB0 register:
\* its operator is in ATTACK, its phase at 0, at the attenuation it had
\* reached, neither 0 nor 511
C36_Witness ==
    /\ call.name = "write" /\ call.a = 1
    /\ OPL.address \in 176..184
    /\ Bit(call.v, 5) = 1
    /\ host.free = 3
    /\ \E s \in { SLOT1, SLOT2 } :
          LET T == OPL.P_CH[OPL.address - 176].SLOT[s]
          IN  /\ T.state = EG_ATT
              /\ T.key = 1
              /\ T.Cnt = << 0, 0 >>
              /\ T.volume \in 1..510

-----------------------------------------------------------------------------
\* the feedback and connection settings of the nine channels of the chip O
C37_FbCon(O) ==
    [ c \in 0..8 |-> << O.P_CH[c].SLOT[SLOT1].FB, O.P_CH[c].SLOT[SLOT1].CON,
                        O.P_CH[c].SLOT[SLOT1].connect1 >> ]

\* C37: only data writes to the addresses 0xC0-0xC8 change a channel's
\* feedback or connection setting; an address write, and a data write to
\* any other address (0xC9-0xDF in particular), leaves the feedback and
\* connection settings of all nine channels unchanged.
C37_OnlyC0ToC8 ==
    [][(call'.name = "write" /\ (call'.a = 0 \/ OPL.address \notin 192..200)) =>
        C37_FbCon(OPL') = C37_FbCon(OPL)]_vars

-----------------------------------------------------------------------------
\* C38: an operator in ATTACK whose attack rate plus key-scale rate is at
\* least 78 is brought to attenuation 0 and to DECAY by the next envelope
\* tick, from every attenuation in 0..511; the first tick of an update
\* does so from the attenuation the operator has, and the update leaves
\* the operator beyond ATTACK.
C38_InstantAttack ==
    [][\A x \in Operators :
        LET op == Operator(OPL, x)
        IN  (op.state = EG_ATT /\ op.ar + op.ksr >= 78) =>
              /\ \A vol \in 0..511 :
                    LET n == EnvelopeStep([op EXCEPT !.volume = vol], OPL.eg_cnt + 1)
                    IN  n = [op EXCEPT !.volume = 0, !.state = EG_DEC]
              /\ call'.name = "update" =>
                    /\ Operator(C27_Tick([OPL EXCEPT !.eg_timer = @ + OPL.eg_timer_add]), x)
                          = [op EXCEPT !.volume = 0, !.state = EG_DEC]
                    /\ Operator(OPL', x).state \in { EG_DEC, EG_SUS }]_vars

\* the first update after the five voices of the loud tune were keyed from
\* silence at the fastest attack: their operators are past ATTACK, keyed
C38_Witness ==
    /\ call.name = "update"
    /\ host = [ tune |-> 6, pc |-> 42, free |-> 0 ]
    /\ OPL.eg_cnt \in 1..4
    /\ \A c \in 0..4 :
          LET op == OPL.P_CH[c].SLOT[SLOT1]
          IN  /\ op.ar + op.ksr >= 78
              /\ op.key # 0
              /\ op.state \in { EG_DEC, EG_SUS }
              /\ op.volume < 16

-----------------------------------------------------------------------------
\* the first operator of the voice
C39_Op == OPL.P_CH[0].SLOT[SLOT1]

\* C39: an operator keyed on with a non-zero attack rate, the host
\* generating samples and writing nothing, eventually reaches attenuation 0
\* and enters DECAY.
C39_AttackEnds ==
    (C39_Op.state = EG_ATT /\ C39_Op.key # 0 /\ C39_Op.ar # 0 /\ host.free = 0)
        ~> (C39_Op.volume = 0 /\ C39_Op.state = EG_DEC)

\* an attack of many ticks has ended: attenuation 0 in DECAY, samples generated
C39_Witness ==
    /\ host.tune = 2 /\ host.pc > 0 /\ host.free = 0
    /\ C39_Op.ar = 48 /\ C39_Op.key # 0
    /\ C39_Op.volume = 0 /\ C39_Op.state = EG_DEC

\* C40: an operator whose key mask became zero with a non-zero release
\* rate, the host generating samples and never keying on again, eventually
\* reaches attenuation 511 and OFF and stays there.
C40_ReleaseEnds ==
    (C39_Op.key = 0 /\ C39_Op.rr # 0 /\ host.free = 1)
        ~> [](C39_Op.volume = MAX_ATT_INDEX /\ C39_Op.state = EG_OFF)

\* a voice released from attenuation 0 has come to rest in OFF at 511
C40_Witness ==
    /\ host.tune = 5 /\ host.free = 1 /\ host.pc > EnvKeyOff
    /\ C39_Op.key = 0 /\ C39_Op.rr # 0
    /\ C39_Op.volume = MAX_ATT_INDEX /\ C39_Op.state = EG_OFF

=============================================================================
